---- MODULE Spec2Model ----
(***************************************************************************)
(* rcat: the gitignore-aware, size-bounded directory walker                *)
(* (src/src/walker.rs) with the file classifier, the statistics collector, *)
(* the byte formatter and the gitignore manager it calls.                  *)
(*                                                                         *)
(* A character is a one-character string, a name (one path component) is a *)
(* sequence of characters and a path is a sequence of names.  The file     *)
(* system is a function from paths to nodes.                               *)
(***************************************************************************)
EXTENDS Integers, Sequences, FiniteSets, TLC

VARIABLES
    fs,           \* the file system the walk runs on (never written by the walk)
    options,      \* WalkOptions
    paths,        \* the roots walk_and_collect is called with
    w,            \* the DirectoryWalker and the local queue of walk()
    w2,           \* a second walk of the same tree, enumerating directories in its own order
    trace,        \* history of w: the paths dequeued, those that passed the visited
                  \* check, and the directories expanded
                  \* (for a call of a single function: the arguments of the call)
    pc,           \* "add_roots", "walking", "done" (walk returned Ok) or "error" (Err)
                  \* (for a call of a single function: before and after the call)
    result,       \* the WalkResult of w once pc = "done" (or what the function returned)
    wq,           \* thread_pool.rs: the WorkQueue behind the mutex of a SharedWorkQueue
    workers,      \* the worker threads that share wq: where each is, and the path it holds
    pool          \* the run of the workers: the roots still to push, whether the
                  \* workers were started, and the history of wq

poolvars == <<wq, workers, pool>>

vars == <<fs, options, paths, w, w2, trace, pc, result, wq, workers, pool>>

----------------------------------------------------------------------------
(* Bounds of the model *)

\* aggregate caps the walks are run with: SmallCap, MidCap and a cap nothing reaches
SmallCap == 20
MidCap == 47
\* per-file cap of the walks that skip large files
FileCap == 12
\* symbolic links followed while resolving one path before ELOOP is reported
MaxLinks == 4

----------------------------------------------------------------------------
(* Sequences *)

Max(a, b) == IF a >= b THEN a ELSE b

Min(a, b) == IF a <= b THEN a ELSE b

Range(s) == {s[i] : i \in 1..Len(s)}

RECURSIVE SumSeq(_)
SumSeq(s) == IF s = <<>> THEN 0 ELSE Head(s) + SumSeq(Tail(s))

\* no element occurs twice in the sequence
NoDuplicates(s) == \A i, j \in 1..Len(s) : s[i] = s[j] => i = j

IsPrefix(p, s) == Len(p) <= Len(s) /\ SubSeq(s, 1, Len(p)) = p

\* all the orders in which the elements of a finite set can be listed
RECURSIVE Perms(_)
Perms(S) ==
    IF S = {} THEN {<<>>}
    ELSE UNION {{<<x>> \o p : p \in Perms(S \ {x})} : x \in S}

----------------------------------------------------------------------------
(* Characters, names and paths *)

\* the byte of a character (ASCII)
Byte(c) ==
    CASE c = " " -> 32 [] c = "!" -> 33 [] c = "#" -> 35 [] c = "*" -> 42
      [] c = "." -> 46 [] c = "/" -> 47 [] c = "?" -> 63 [] c = "T" -> 84
      [] c = "a" -> 97 [] c = "b" -> 98 [] c = "c" -> 99 [] c = "d" -> 100
      [] c = "e" -> 101 [] c = "f" -> 102 [] c = "g" -> 103 [] c = "h" -> 104
      [] c = "i" -> 105 [] c = "k" -> 107 [] c = "l" -> 108 [] c = "m" -> 109
      [] c = "n" -> 110 [] c = "o" -> 111 [] c = "r" -> 114 [] c = "s" -> 115
      [] c = "t" -> 116 [] c = "u" -> 117 [] c = "x" -> 120 [] c = "z" -> 122

\* the character of the alphabet whose UTF-8 encoding takes two bytes (U+00E9)
TwoByteChar == "U+00E9"

\* the UTF-8 encoding of one character
Utf8(c) == IF c = TwoByteChar THEN <<"0xC3", "0xA9">> ELSE <<c>>

\* str::as_bytes
RECURSIVE as_bytes(_)
as_bytes(s) == IF s = <<>> THEN <<>> ELSE Utf8(Head(s)) \o as_bytes(Tail(s))

\* str::to_lowercase on one character
LowerChar(c) == IF c = "T" THEN "t" ELSE c

ToLower(s) == [i \in 1..Len(s) |-> LowerChar(s[i])]

\* byte-wise lexicographic order of two names (OsStr::cmp)
RECURSIVE NameLess(_, _)
NameLess(a, b) ==
    IF b = <<>> THEN FALSE
    ELSE IF a = <<>> THEN TRUE
    ELSE IF Byte(Head(a)) # Byte(Head(b)) THEN Byte(Head(a)) < Byte(Head(b))
    ELSE NameLess(Tail(a), Tail(b))

\* component-wise lexicographic order of two paths (Path::cmp)
RECURSIVE PathLess(_, _)
PathLess(p, q) ==
    IF q = <<>> THEN FALSE
    ELSE IF p = <<>> THEN TRUE
    ELSE IF Head(p) # Head(q) THEN NameLess(Head(p), Head(q))
    ELSE PathLess(Tail(p), Tail(q))

\* insertion at the end, whatever the order
InsertLast(p, s) == Append(s, p)

\* Vec::sort on paths: insertion of each element at its place
RECURSIVE InsertSorted(_, _)
InsertSorted(p, s) ==
    IF s = <<>> THEN <<p>>
    ELSE IF PathLess(Head(s), p) THEN <<Head(s)>> \o InsertSorted(p, Tail(s))
    ELSE <<p>> \o s

RECURSIVE SortPaths(_)
SortPaths(s) == IF s = <<>> THEN <<>> ELSE InsertSorted(Head(s), SortPaths(Tail(s)))

\* Path::display().len(): the names joined by '/'
RECURSIVE DisplayLen(_)
DisplayLen(p) ==
    IF p = <<>> THEN 0
    ELSE IF Len(p) = 1 THEN Len(p[1])
    ELSE Len(Head(p)) + 1 + DisplayLen(Tail(p))

\* Path::file_name()
FileName(p) == p[Len(p)]

Parent(p) == SubSeq(p, 1, Len(p) - 1)

\* str::starts_with('.') on the file name
IsDotName(p) == Len(FileName(p)) > 0 /\ FileName(p)[1] = "."

\* Path::strip_prefix: the rest of the path, or NoPrefix when base is no prefix
NoPrefix == <<"no-prefix">>

StripPrefix(p, base) == IF IsPrefix(base, p) THEN SubSeq(p, Len(base) + 1, Len(p)) ELSE NoPrefix

\* position of the last '.' of a name, 0 when there is none
RECURSIVE LastDot(_, _)
LastDot(name, i) == IF i = 0 THEN 0 ELSE IF name[i] = "." THEN i ELSE LastDot(name, i - 1)

\* Path::extension(): what follows the last '.', none for a name without '.'
\* or whose only '.' is its first character
HasExtension(p) == LastDot(FileName(p), Len(FileName(p))) > 1

Extension(p) ==
    SubSeq(FileName(p), LastDot(FileName(p), Len(FileName(p))) + 1, Len(FileName(p)))

----------------------------------------------------------------------------
(* The file system *)

\* A node is a directory, a regular file or a symbolic link.
\*   size      metadata().len() of a file
\*   openable  File::open succeeds
\*   first_nul position (from 1) of the first 0x00 byte of a file, 0 when it has none
\*   utf8      the bytes of the file are valid UTF-8
\*   lines     the lines of a file that is read as an ignore file
\*   readable  fs::read_dir succeeds on a directory
\*   target    the (absolute) path a symbolic link points to
Dir(readable) ==
    [kind |-> "dir", target |-> <<>>, size |-> 0, openable |-> TRUE, first_nul |-> 0,
     utf8 |-> TRUE, lines |-> <<>>, readable |-> readable]

File(size, openable, first_nul, utf8) ==
    [kind |-> "file", target |-> <<>>, size |-> size, openable |-> openable,
     first_nul |-> first_nul, utf8 |-> utf8, lines |-> <<>>, readable |-> FALSE]

TextFile(size) == File(size, TRUE, 0, TRUE)

\* an ignore file: its size is the length of its lines, each with its line break
IgnoreFile(lines) ==
    [kind |-> "file", target |-> <<>>,
     size |-> SumSeq([i \in 1..Len(lines) |-> Len(lines[i]) + 1]),
     openable |-> TRUE, first_nul |-> 0, utf8 |-> TRUE, lines |-> lines, readable |-> FALSE]

Link(target) ==
    [kind |-> "symlink", target |-> target, size |-> 0, openable |-> TRUE, first_nul |-> 0,
     utf8 |-> TRUE, lines |-> <<>>, readable |-> FALSE]

\* the result of a failed canonicalize
NoPath == <<>>

\* Path::canonicalize: resolve the path name by name, following symbolic links;
\* fails on a missing name, on a name below a non-directory and on too many links
RECURSIVE Resolve(_, _, _, _)
Resolve(f, done, rest, fuel) ==
    IF rest = <<>> THEN done
    ELSE LET cand == Append(done, Head(rest)) IN
         IF cand \notin DOMAIN f THEN NoPath
         ELSE IF f[cand].kind = "symlink"
              THEN IF fuel = 0 THEN NoPath
                   ELSE Resolve(f, <<>>, f[cand].target \o Tail(rest), fuel - 1)
         ELSE IF Tail(rest) # <<>> /\ f[cand].kind # "dir" THEN NoPath
         ELSE Resolve(f, cand, Tail(rest), fuel)

Canonicalize(f, p) == Resolve(f, <<>>, p, MaxLinks)

\* Path::exists, Path::is_file, Path::is_dir: all follow symbolic links
Exists(f, p) == Canonicalize(f, p) # NoPath

IsFile(f, p) == Exists(f, p) /\ f[Canonicalize(f, p)].kind = "file"

IsDir(f, p) == Exists(f, p) /\ f[Canonicalize(f, p)].kind = "dir"

\* the node a path leads to (only for a path that exists)
NodeAt(f, p) == f[Canonicalize(f, p)]

\* fs::read_dir succeeds
CanReadDir(f, p) == IsDir(f, p) /\ NodeAt(f, p).readable

\* the entries fs::read_dir yields, as the set of their paths (dir joined with the name)
ReadDir(f, p) ==
    {Append(p, FileName(q)) : q \in {x \in DOMAIN f : Len(x) > 0 /\ Parent(x) = Canonicalize(f, p)}}

\* fs::read_to_string succeeds
CanReadToString(f, p) == IsFile(f, p) /\ NodeAt(f, p).openable /\ NodeAt(f, p).utf8

----------------------------------------------------------------------------
(* config.rs, file_processor.rs, format.rs *)

DEFAULT_MAX_SIZE == 5 * 1024 * 1024

BINARY_CHECK_BUFFER_SIZE == 8192

\* FileProcessor::is_binary: a 0x00 byte among the bytes one read of the buffer returns
is_binary(f, p) ==
    /\ Exists(f, p)
    /\ NodeAt(f, p).kind = "file"
    /\ NodeAt(f, p).openable
    /\ NodeAt(f, p).first_nul > 0
    /\ NodeAt(f, p).first_nul <= Min(NodeAt(f, p).size, BINARY_CHECK_BUFFER_SIZE)

\* FileProcessor::process: the classification of a file
process(f, p) ==
    IF is_binary(f, p) THEN "Binary"
    ELSE IF CanReadToString(f, p) THEN "Text"
    ELSE "Unreadable"

\* length of the decimal numeral of n
RECURSIVE Digits(_)
Digits(n) == IF n < 10 THEN 1 ELSE 1 + Digits(n \div 10)

RECURSIVE Pow1024(_)
Pow1024(u) == IF u = 0 THEN 1 ELSE 1024 * Pow1024(u - 1)

\* n / d rounded to the nearest integer, ties to even (float formatting with a precision)
RoundDiv(n, d) ==
    LET q == n \div d
        r == n % d
    IN IF 2 * r > d THEN q + 1
       ELSE IF 2 * r = d THEN q + (q % 2)
       ELSE q

\* the unit index the loop of ByteFormatter::format stops at
RECURSIVE UnitIndex(_, _)
UnitIndex(bytes, u) ==
    IF bytes >= Pow1024(u + 1) /\ u < 4 THEN UnitIndex(bytes, u + 1) ELSE u

\* ByteFormatter::format(bytes).len()
format_len(bytes) ==
    IF bytes = 0 THEN 3
    ELSE LET u == UnitIndex(bytes, 0)
             k == Pow1024(u)
             unit == IF u = 0 THEN 1 ELSE 2
         IN IF bytes % k = 0 THEN Digits(bytes \div k) + 1 + unit
            ELSE IF bytes < 10 * k THEN Digits(RoundDiv(bytes * 100, k) \div 100) + 3 + 1 + unit
            ELSE IF bytes < 100 * k THEN Digits(RoundDiv(bytes * 10, k) \div 10) + 2 + 1 + unit
            ELSE Digits(RoundDiv(bytes, k)) + 1 + unit

\* ByteFormatter::format_as_unit(bytes).len()
format_as_unit_len(bytes) ==
    IF bytes >= Pow1024(3) /\ bytes % Pow1024(3) = 0 THEN Digits(bytes \div Pow1024(3)) + 2
    ELSE IF bytes >= Pow1024(2) /\ bytes % Pow1024(2) = 0 THEN Digits(bytes \div Pow1024(2)) + 2
    ELSE IF bytes >= 1024 /\ bytes % 1024 = 0 THEN Digits(bytes \div 1024) + 2
    ELSE Digits(bytes) + 6

\* FileProcessor::format_content: a block of contents, kept as its kind, the path
\* in its header and its length in bytes.
\*   Text:   "--- {path} ---\n{text}"          Binary: "--- {path} ---\n<BINARY_FILE>"
TextBlock(f, p) ==
    [kind |-> "text", path |-> p, len |-> 4 + DisplayLen(p) + 5 + NodeAt(f, p).size]

BinaryBlock(p) == [kind |-> "binary", path |-> p, len |-> 4 + DisplayLen(p) + 5 + 13]

\* the truncation marker pushed by process_file:
\* "\n--- TRUNCATED: Size limit of {} reached ---\n--- {} collected, {} would exceed limit ---"
MarkerBlock(max_size, total_size, size) ==
    [kind |-> "marker", path |-> <<>>,
     len |-> 30 + format_as_unit_len(max_size) + 17 + format_len(total_size)
             + 12 + format_len(total_size + size) + 23]

----------------------------------------------------------------------------
(* gitignore.rs: GitignoreMatcher *)

\* str::trim
RECURSIVE TrimStart(_)
TrimStart(s) == IF s # <<>> /\ Head(s) = " " THEN TrimStart(Tail(s)) ELSE s

RECURSIVE TrimEnd(_)
TrimEnd(s) ==
    IF s # <<>> /\ s[Len(s)] = " " THEN TrimEnd(SubSeq(s, 1, Len(s) - 1)) ELSE s

Trim(s) == TrimEnd(TrimStart(s))

\* str::split('/'): the pieces between the separators, empty pieces included
RECURSIVE SplitFrom(_, _, _)
SplitFrom(s, i, cur) ==
    IF i > Len(s) THEN <<cur>>
    ELSE IF s[i] = "/" THEN <<cur>> \o SplitFrom(s, i + 1, <<>>)
    ELSE SplitFrom(s, i + 1, Append(cur, s[i]))

Split(s) == SplitFrom(s, 1, <<>>)

SelectNonEmpty(parts) == SelectSeq(parts, LAMBDA x : x # <<>>)

\* Path::to_string_lossy of a relative path: its names joined by '/'
RECURSIVE JoinPath(_)
JoinPath(p) ==
    IF p = <<>> THEN <<>>
    ELSE IF Len(p) = 1 THEN p[1]
    ELSE Head(p) \o <<"/">> \o JoinPath(Tail(p))

\* parse of one line that leaves the '/' at the end of a directory-only line in
\* the pattern text
parse_line_keeps_slash(raw) ==
    LET line == Trim(raw) IN
    IF line = <<>> \/ Head(line) = "#" THEN <<>>
    ELSE LET is_negation == Head(line) = "!"
             l1 == IF is_negation THEN Tail(line) ELSE line
             is_directory_only == l1 # <<>> /\ l1[Len(l1)] = "/"
             is_absolute == l1 # <<>> /\ Head(l1) = "/"
             pattern == IF is_absolute THEN Tail(l1) ELSE l1
         IN <<[pattern |-> pattern, is_negation |-> is_negation,
               is_directory_only |-> is_directory_only, is_absolute |-> is_absolute]>>

\* the patterns of one line of an ignore file: none for a blank line or a comment
parse_line(raw) ==
    LET line == Trim(raw) IN
    IF line = <<>> \/ Head(line) = "#" THEN <<>>
    ELSE LET is_negation == Head(line) = "!"
             l1 == IF is_negation THEN Tail(line) ELSE line
             is_directory_only == l1 # <<>> /\ l1[Len(l1)] = "/"
             l2 == IF is_directory_only THEN SubSeq(l1, 1, Len(l1) - 1) ELSE l1
             is_absolute == l2 # <<>> /\ Head(l2) = "/"
             pattern == IF is_absolute THEN Tail(l2) ELSE l2
         IN <<[pattern |-> pattern, is_negation |-> is_negation,
               is_directory_only |-> is_directory_only, is_absolute |-> is_absolute]>>

\* GitignoreMatcher::parse_gitignore on the lines of the content
RECURSIVE parse_gitignore(_)
parse_gitignore(lines) ==
    IF lines = <<>> THEN <<>> ELSE parse_line(Head(lines)) \o parse_gitignore(Tail(lines))

\* the trailing loop of glob_match: skip the '*'s that remain
RECURSIVE SkipStars(_, _)
SkipStars(p, pi) == IF pi < Len(p) /\ p[pi + 1] = "*" THEN SkipStars(p, pi + 1) ELSE pi

\* the main loop of glob_match; indices count from 0, -1 stands for None
RECURSIVE GlobLoop(_, _, _, _, _, _)
GlobLoop(t, p, ti, pi, si, sm) ==
    IF ti < Len(t)
    THEN IF pi < Len(p)
         THEN IF p[pi + 1] = "*" THEN GlobLoop(t, p, ti, pi + 1, pi, ti)
              ELSE IF p[pi + 1] = "?" THEN GlobLoop(t, p, ti + 1, pi + 1, si, sm)
              ELSE IF p[pi + 1] = t[ti + 1] THEN GlobLoop(t, p, ti + 1, pi + 1, si, sm)
              ELSE IF si # -1 THEN GlobLoop(t, p, sm + 1, si + 1, si, sm + 1)
              ELSE FALSE
         ELSE IF si # -1 THEN GlobLoop(t, p, sm + 1, si + 1, si, sm + 1)
         ELSE FALSE
    ELSE SkipStars(p, pi) = Len(p)

\* GitignoreMatcher::glob_match
glob_match(text, pattern) ==
    IF pattern = <<"*">> THEN TRUE
    ELSE IF "*" \notin Range(pattern) /\ "?" \notin Range(pattern) THEN text = pattern
    ELSE GlobLoop(as_bytes(text), as_bytes(pattern), 0, 0, -1, -1)

\* GitignoreMatcher::match_parts; MatchLoop is its while loop, StarScan the inner
\* loop that looks for a place where the pattern after "**" matches
RECURSIVE match_parts(_, _, _)
RECURSIVE MatchLoop(_, _, _, _)
RECURSIVE StarScan(_, _, _, _)
StarScan(path_parts, pattern_parts, path_idx, pattern_idx) ==
    IF path_idx < Len(path_parts)
    THEN IF /\ glob_match(path_parts[path_idx + 1], pattern_parts[pattern_idx + 1])
            /\ match_parts(path_parts,
                           SubSeq(pattern_parts, pattern_idx + 1, Len(pattern_parts)),
                           path_idx)
         THEN TRUE
         ELSE StarScan(path_parts, pattern_parts, path_idx + 1, pattern_idx)
    ELSE FALSE

MatchLoop(path_parts, pattern_parts, path_idx, pattern_idx) ==
    IF pattern_idx < Len(pattern_parts) /\ path_idx < Len(path_parts)
    THEN IF pattern_parts[pattern_idx + 1] = <<"*", "*">>
         THEN IF pattern_idx = Len(pattern_parts) - 1 THEN TRUE
              ELSE StarScan(path_parts, pattern_parts, path_idx, pattern_idx + 1)
         ELSE IF glob_match(path_parts[path_idx + 1], pattern_parts[pattern_idx + 1])
         THEN MatchLoop(path_parts, pattern_parts, path_idx + 1, pattern_idx + 1)
         ELSE FALSE
    ELSE pattern_idx = Len(pattern_parts)

match_parts(path_parts, pattern_parts, start_idx) ==
    IF pattern_parts = <<>> THEN TRUE
    ELSE MatchLoop(path_parts, pattern_parts, start_idx, 0)

\* matches_pattern that tries a pattern with '/' from every segment of the path
matches_pattern_any_depth(path, pattern, is_absolute) ==
    IF pattern = <<"*">> THEN TRUE
    ELSE LET pattern_parts == Split(pattern)
             path_parts == SelectNonEmpty(Split(path))
         IN IF is_absolute THEN match_parts(path_parts, pattern_parts, 0)
            ELSE IF "/" \in Range(pattern)
            THEN \E k \in 0..Len(path_parts) : match_parts(path_parts, pattern_parts, k)
            ELSE \E i \in 1..Len(path_parts) : glob_match(path_parts[i], pattern)

\* GitignoreMatcher::matches_pattern
matches_pattern(path, pattern, is_absolute) ==
    IF pattern = <<"*">> THEN TRUE
    ELSE LET pattern_parts == Split(pattern)
             path_parts == SelectNonEmpty(Split(path))
         IN IF is_absolute THEN match_parts(path_parts, pattern_parts, 0)
            ELSE IF "/" \in Range(pattern) THEN match_parts(path_parts, pattern_parts, 0)
            ELSE \E i \in 1..Len(path_parts) : glob_match(path_parts[i], pattern)

\* the loop over the patterns stopped at the first pattern that matches
RECURSIVE IgnoredAtFirstMatch(_, _, _, _)
IgnoredAtFirstMatch(patterns, path_str, is_dir, ignored) ==
    IF patterns = <<>> THEN ignored
    ELSE LET pattern == Head(patterns) IN
         IF pattern.is_directory_only /\ ~is_dir
         THEN IgnoredAtFirstMatch(Tail(patterns), path_str, is_dir, ignored)
         ELSE IF matches_pattern(path_str, pattern.pattern, pattern.is_absolute)
         THEN ~pattern.is_negation
         ELSE IgnoredAtFirstMatch(Tail(patterns), path_str, is_dir, ignored)

\* the loop over the patterns applying directory-only patterns to every path
RECURSIVE IgnoredWhateverKind(_, _, _, _)
IgnoredWhateverKind(patterns, path_str, is_dir, ignored) ==
    IF patterns = <<>> THEN ignored
    ELSE LET pattern == Head(patterns) IN
         IF matches_pattern(path_str, pattern.pattern, pattern.is_absolute)
         THEN IgnoredWhateverKind(Tail(patterns), path_str, is_dir, ~pattern.is_negation)
         ELSE IgnoredWhateverKind(Tail(patterns), path_str, is_dir, ignored)

\* the loop of GitignoreMatcher::should_ignore over the patterns, in file order
RECURSIVE IgnoredAfter(_, _, _, _)
IgnoredAfter(patterns, path_str, is_dir, ignored) ==
    IF patterns = <<>> THEN ignored
    ELSE LET pattern == Head(patterns) IN
         IF pattern.is_directory_only /\ ~is_dir
         THEN IgnoredAfter(Tail(patterns), path_str, is_dir, ignored)
         ELSE IF matches_pattern(path_str, pattern.pattern, pattern.is_absolute)
         THEN IgnoredAfter(Tail(patterns), path_str, is_dir, ~pattern.is_negation)
         ELSE IgnoredAfter(Tail(patterns), path_str, is_dir, ignored)

\* GitignoreMatcher::new
NewMatcher(lines, base_path) == [patterns |-> parse_gitignore(lines), base_path |-> base_path]

\* should_ignore that applies the patterns to every path, inside the base
\* directory or not
matcher_should_ignore_any_path(f, matcher, path) ==
    LET relative_path == StripPrefix(path, matcher.base_path) IN
    IgnoredAfter(matcher.patterns,
                 JoinPath(IF relative_path = NoPrefix THEN path ELSE relative_path),
                 IsDir(f, path), FALSE)

\* GitignoreMatcher::should_ignore
matcher_should_ignore(f, matcher, path) ==
    LET relative_path == StripPrefix(path, matcher.base_path) IN
    IF relative_path = NoPrefix THEN FALSE
    ELSE IF relative_path = <<>> THEN FALSE
    ELSE IgnoredAfter(matcher.patterns, JoinPath(relative_path), IsDir(f, path), FALSE)

----------------------------------------------------------------------------
(* gitignore.rs: GitignoreManager *)

\* the file name ".gitignore"
GitignoreName == <<".", "g", "i", "t", "i", "g", "n", "o", "r", "e">>

EmptyMap == [x \in {} |-> 0]

MapInsert(m, k, v) == [x \in DOMAIN m \cup {k} |-> IF x = k THEN v ELSE m[x]]

\* GitignoreManager::new
NewManager(f, root_path) ==
    LET gitignore_path == Append(root_path, GitignoreName) IN
    IF Exists(f, gitignore_path) /\ CanReadToString(f, gitignore_path)
    THEN [root_path |-> root_path,
          matchers |-> MapInsert(EmptyMap, root_path,
                                 NewMatcher(NodeAt(f, gitignore_path).lines, root_path)),
          active_gitignores |-> <<gitignore_path>>]
    ELSE [root_path |-> root_path, matchers |-> EmptyMap, active_gitignores |-> <<>>]

\* check_directory that loads the ignore file whether or not the directory has
\* a matcher already
check_directory_reloads(f, mgr, dir_path) ==
    LET gitignore_path == Append(dir_path, GitignoreName) IN
    IF /\ Exists(f, gitignore_path)
       /\ CanReadToString(f, gitignore_path)
    THEN [mgr EXCEPT
            !.matchers = MapInsert(@, dir_path,
                                   NewMatcher(NodeAt(f, gitignore_path).lines, dir_path)),
            !.active_gitignores = Append(@, gitignore_path)]
    ELSE mgr

\* GitignoreManager::check_directory
check_directory(f, mgr, dir_path) ==
    LET gitignore_path == Append(dir_path, GitignoreName) IN
    IF /\ Exists(f, gitignore_path)
       /\ dir_path \notin DOMAIN mgr.matchers
       /\ CanReadToString(f, gitignore_path)
    THEN [mgr EXCEPT
            !.matchers = MapInsert(@, dir_path,
                                   NewMatcher(NodeAt(f, gitignore_path).lines, dir_path)),
            !.active_gitignores = Append(@, gitignore_path)]
    ELSE mgr

\* the loop of GitignoreManager::should_ignore over the components of the path
\* below the root: current_path is the first n names of the path
RECURSIVE ChainIgnores(_, _, _, _)
ChainIgnores(f, mgr, path, n) ==
    IF n > Len(path) THEN FALSE
    ELSE IF /\ SubSeq(path, 1, n) \in DOMAIN mgr.matchers
            /\ matcher_should_ignore(f, mgr.matchers[SubSeq(path, 1, n)], path)
    THEN TRUE
    ELSE ChainIgnores(f, mgr, path, n + 1)

\* should_ignore that consults the matcher of the root only
manager_should_ignore_root_only(f, mgr, path) ==
    /\ mgr.root_path \in DOMAIN mgr.matchers
    /\ matcher_should_ignore(f, mgr.matchers[mgr.root_path], path)

\* GitignoreManager::should_ignore: the matcher of the root, then the matcher of
\* every directory on the way from the root to the path; the first that ignores wins
manager_should_ignore(f, mgr, path) ==
    IF /\ mgr.root_path \in DOMAIN mgr.matchers
       /\ matcher_should_ignore(f, mgr.matchers[mgr.root_path], path)
    THEN TRUE
    ELSE IF IsPrefix(mgr.root_path, path)
    THEN ChainIgnores(f, mgr, path, Len(mgr.root_path) + 1)
    ELSE FALSE

has_active_gitignores(mgr) == mgr.active_gitignores # <<>>

----------------------------------------------------------------------------
(* stats.rs: StatsCollector *)

\* StatsCollector::new
NewStats ==
    [files_processed |-> 0, directories_processed |-> 0, binary_files |-> 0,
     text_files |-> 0, unreadable_files |-> 0, skipped_files |-> 0,
     skipped_directories |-> 0, gitignored_files |-> 0, gitignored_directories |-> 0,
     skipped_large_files |-> 0, gitignore_files |-> <<>>, extensions |-> EmptyMap,
     total_bytes |-> 0]

\* *extensions.entry(ext).or_insert(0) += 1 for a path that has an extension
CountExtension(extensions, path) ==
    IF HasExtension(path)
    THEN LET ext == ToLower(Extension(path)) IN
         MapInsert(extensions, ext, IF ext \in DOMAIN extensions THEN extensions[ext] + 1 ELSE 1)
    ELSE extensions

record_text_file(stats, path, size) ==
    [stats EXCEPT !.files_processed = @ + 1, !.text_files = @ + 1, !.total_bytes = @ + size,
                  !.extensions = CountExtension(@, path)]

record_binary_file(stats, path) ==
    [stats EXCEPT !.files_processed = @ + 1, !.binary_files = @ + 1,
                  !.extensions = CountExtension(@, path)]

\* record_unreadable_file that leaves files_processed alone
record_unreadable_file_uncounted(stats) == [stats EXCEPT !.unreadable_files = @ + 1]

record_unreadable_file(stats) ==
    [stats EXCEPT !.files_processed = @ + 1, !.unreadable_files = @ + 1]

record_directory(stats) == [stats EXCEPT !.directories_processed = @ + 1]

record_skipped_file(stats) == [stats EXCEPT !.skipped_files = @ + 1]

record_skipped_directory(stats) == [stats EXCEPT !.skipped_directories = @ + 1]

record_gitignored_file(stats) == [stats EXCEPT !.gitignored_files = @ + 1]

record_gitignored_directory(stats) == [stats EXCEPT !.gitignored_directories = @ + 1]

\* called by the walker, not defined in stats.rs: the large-file-skip counter
record_skipped_large_file(stats) == [stats EXCEPT !.skipped_large_files = @ + 1]

set_gitignore_active(stats, gitignore_files) == [stats EXCEPT !.gitignore_files = gitignore_files]

----------------------------------------------------------------------------
(* glob.rs: GlobMatcher *)

\* a trailing loop that skips no '*': the pattern has to be used up by the text
MatchesSkipNoStars(pattern_bytes, pattern_idx) == pattern_idx

\* the trailing loop of GlobMatcher::matches: skip the '*'s that remain
RECURSIVE MatchesSkipStars(_, _)
MatchesSkipStars(pattern_bytes, pattern_idx) ==
    IF pattern_idx < Len(pattern_bytes) /\ pattern_bytes[pattern_idx + 1] = "*"
    THEN MatchesSkipStars(pattern_bytes, pattern_idx + 1)
    ELSE pattern_idx

\* the main loop of GlobMatcher::matches; indices count from 0, -1 stands for None
RECURSIVE MatchesLoop(_, _, _, _, _, _)
MatchesLoop(text_bytes, pattern_bytes, text_idx, pattern_idx, star_idx, star_match) ==
    IF text_idx < Len(text_bytes)
    THEN IF pattern_idx < Len(pattern_bytes)
         THEN IF pattern_bytes[pattern_idx + 1] = "*"
              THEN MatchesLoop(text_bytes, pattern_bytes, text_idx, pattern_idx + 1,
                               pattern_idx, text_idx)
              ELSE IF pattern_bytes[pattern_idx + 1] = "?"
              THEN MatchesLoop(text_bytes, pattern_bytes, text_idx + 1, pattern_idx + 1,
                               star_idx, star_match)
              ELSE IF pattern_bytes[pattern_idx + 1] = text_bytes[text_idx + 1]
              THEN MatchesLoop(text_bytes, pattern_bytes, text_idx + 1, pattern_idx + 1,
                               star_idx, star_match)
              ELSE IF star_idx # -1
              THEN MatchesLoop(text_bytes, pattern_bytes, star_match + 1, star_idx + 1,
                               star_idx, star_match + 1)
              ELSE FALSE
         ELSE IF star_idx # -1
         THEN MatchesLoop(text_bytes, pattern_bytes, star_match + 1, star_idx + 1,
                          star_idx, star_match + 1)
         ELSE FALSE
    ELSE MatchesSkipStars(pattern_bytes, pattern_idx) = Len(pattern_bytes)

\* GlobMatcher::matches
matches(text, pattern) ==
    IF pattern = <<"*">> THEN TRUE
    ELSE IF "*" \notin Range(pattern) /\ "?" \notin Range(pattern) THEN text = pattern
    ELSE MatchesLoop(as_bytes(text), as_bytes(pattern), 0, 0, -1, -1)

\* no path is excluded by a user-supplied pattern
ExcludedNever(opts, path) == FALSE

\* the user-supplied exclude patterns, which walker.rs does not read: some
\* component of the path matches some pattern under GlobMatcher::matches
ExcludedByPattern(opts, path) ==
    \E i \in 1..Len(opts.exclude_patterns), j \in 1..Len(path) :
        matches(path[j], opts.exclude_patterns[i])

----------------------------------------------------------------------------
(* walker.rs: DirectoryWalker *)

\* DirectoryWalker::new, with the queue of walk() and the error walk() returns;
\* handled is the history of the calls of process_file: the path of each call and
\* how the call classified it
NewWalker ==
    [contents |-> <<>>, total_size |-> 0, truncated |-> FALSE, stats |-> NewStats,
     gitignore_managers |-> <<>>, root_paths |-> <<>>, visited_paths |-> {},
     queue |-> <<>>, err |-> FALSE, handled |-> <<>>]

\* DirectoryWalker::add_root
add_root(f, wk, path) ==
    LET gitignore == NewManager(f, path) IN
    [wk EXCEPT
       !.root_paths = Append(@, path),
       !.stats = IF has_active_gitignores(gitignore)
                 THEN set_gitignore_active(@, gitignore.active_gitignores)
                 ELSE @,
       !.gitignore_managers = Append(@, gitignore)]

\* "for gitignore in &self.gitignore_managers { if gitignore.should_ignore(path) .."
AnyIgnores(f, wk, path) ==
    \E i \in 1..Len(wk.gitignore_managers) :
        manager_should_ignore(f, wk.gitignore_managers[i], path)

\* what is recorded as gitignored and skipped: a path a manager ignores or a
\* user-supplied pattern excludes
Ignored(f, opts, wk, path) == AnyIgnores(f, wk, path) \/ ExcludedByPattern(opts, path)

\* the counter an ignored path is recorded in
RecordGitignored(f, stats, path) ==
    IF IsFile(f, path) THEN record_gitignored_file(stats)
    ELSE IF IsDir(f, path) THEN record_gitignored_directory(stats)
    ELSE stats

\* the counter a dot-named entry is recorded in
RecordSkipped(f, stats, path) ==
    IF IsFile(f, path) THEN record_skipped_file(stats)
    ELSE IF IsDir(f, path) THEN record_skipped_directory(stats)
    ELSE stats

\* should_process without the check for a leading '.'
should_process_no_dot_check(f, opts, wk, path) ==
    IF ~opts.include_all /\ Ignored(f, opts, wk, path)
    THEN [keep |-> FALSE, stats |-> RecordGitignored(f, wk.stats, path)]
    ELSE [keep |-> TRUE, stats |-> wk.stats]

\* should_process that skips dot-named entries whatever include_all says
should_process_dot_always(f, opts, wk, path) ==
    IF ~opts.include_all /\ Ignored(f, opts, wk, path)
    THEN [keep |-> FALSE, stats |-> RecordGitignored(f, wk.stats, path)]
    ELSE IF IsDotName(path)
    THEN [keep |-> FALSE, stats |-> RecordSkipped(f, wk.stats, path)]
    ELSE [keep |-> TRUE, stats |-> wk.stats]

\* DirectoryWalker::should_process: whether the entry is kept, and the statistics after
should_process(f, opts, wk, path) ==
    IF ~opts.include_all /\ Ignored(f, opts, wk, path)
    THEN [keep |-> FALSE, stats |-> RecordGitignored(f, wk.stats, path)]
    ELSE IF ~opts.include_all /\ IsDotName(path)
    THEN [keep |-> FALSE, stats |-> RecordSkipped(f, wk.stats, path)]
    ELSE [keep |-> TRUE, stats |-> wk.stats]

\* Emit with the size of the candidate block left out of the comparison
EmitIgnoringSize(opts, wk, block) ==
    IF wk.total_size > opts.max_size
    THEN [wk EXCEPT
            !.contents = Append(@, MarkerBlock(opts.max_size, wk.total_size, block.len)),
            !.truncated = TRUE]
    ELSE [wk EXCEPT
            !.total_size = @ + block.len,
            !.stats = IF block.kind = "text" THEN record_text_file(@, block.path, block.len)
                      ELSE @,
            !.contents = Append(@, block)]

\* Emit that truncates already when the block fills the cap exactly
EmitBelowCapOnly(opts, wk, block) ==
    IF wk.total_size + block.len >= opts.max_size
    THEN [wk EXCEPT
            !.contents = Append(@, MarkerBlock(opts.max_size, wk.total_size, block.len)),
            !.truncated = TRUE]
    ELSE [wk EXCEPT
            !.total_size = @ + block.len,
            !.stats = IF block.kind = "text" THEN record_text_file(@, block.path, block.len)
                      ELSE @,
            !.contents = Append(@, block)]

\* the check of process_file before a block is pushed, and the push
Emit(opts, wk, block) ==
    IF wk.total_size + block.len > opts.max_size
    THEN [wk EXCEPT
            !.contents = Append(@, MarkerBlock(opts.max_size, wk.total_size, block.len)),
            !.truncated = TRUE]
    ELSE [wk EXCEPT
            !.total_size = @ + block.len,
            !.stats = IF block.kind = "text" THEN record_text_file(@, block.path, block.len)
                      ELSE @,
            !.contents = Append(@, block)]

\* a binary file given a block whatever the options say
EmitsBinaryAlways(opts) == TRUE

\* "if self.options.include_all": whether a binary file is given a block
EmitsBinary(opts) == opts.include_all

\* a size check that skips a file already at the per-file cap
ReachesFileCap(f, opts, path) ==
    Exists(f, path) /\ NodeAt(f, path).size >= opts.max_file_size

\* whether the size check of process_file skips the file
ExceedsFileCap(f, opts, path) ==
    Exists(f, path) /\ NodeAt(f, path).size > opts.max_file_size

\* DirectoryWalker::process_file
process_file(f, opts, wk, path) ==
    IF ExceedsFileCap(f, opts, path)
    THEN [wk EXCEPT !.stats = record_skipped_large_file(@),
                    !.handled = Append(@, [path |-> path, class |-> "Large"])]
    ELSE LET content == process(f, path)
             wk0 == [wk EXCEPT !.handled = Append(@, [path |-> path, class |-> content])]
         IN
         IF content = "Text" THEN Emit(opts, wk0, TextBlock(f, path))
         ELSE IF content = "Binary"
         THEN LET counted == [wk0 EXCEPT !.stats = record_binary_file(@, path)] IN
              IF EmitsBinary(opts) THEN Emit(opts, counted, BinaryBlock(path)) ELSE counted
         ELSE [wk0 EXCEPT !.stats = record_unreadable_file(@)]

\* "for gitignore in &self.gitignore_managers { gitignore.check_directory(path); .. }"
RECURSIVE CheckDirectories(_, _, _, _)
CheckDirectories(f, wk, path, i) ==
    IF i > Len(wk.gitignore_managers) THEN wk
    ELSE LET mgr == check_directory(f, wk.gitignore_managers[i], path) IN
         CheckDirectories(f,
             [wk EXCEPT !.gitignore_managers[i] = mgr,
                        !.stats = IF has_active_gitignores(mgr)
                                  THEN set_gitignore_active(@, mgr.active_gitignores)
                                  ELSE @],
             path, i + 1)

\* "for entry in all_entries": the entries kept, as files and as subdirectories
RECURSIVE Partition(_, _, _, _, _, _)
Partition(f, opts, wk, entries, files, subdirs) ==
    IF entries = <<>> THEN [wk |-> wk, files |-> files, subdirs |-> subdirs]
    ELSE LET entry == Head(entries)
             sp == should_process(f, opts, wk, entry)
             wk1 == [wk EXCEPT !.stats = sp.stats]
         IN IF ~sp.keep THEN Partition(f, opts, wk1, Tail(entries), files, subdirs)
            ELSE IF IsFile(f, entry)
            THEN Partition(f, opts, wk1, Tail(entries), Append(files, entry), subdirs)
            ELSE IF IsDir(f, entry)
            THEN Partition(f, opts, wk1, Tail(entries), files, Append(subdirs, entry))
            ELSE Partition(f, opts, wk1, Tail(entries), files, subdirs)

\* the loop over the files without its "if self.truncated { break; }"
RECURSIVE ProcessFilesNoBreak(_, _, _, _)
ProcessFilesNoBreak(f, opts, wk, files) ==
    IF files = <<>> THEN wk
    ELSE ProcessFilesNoBreak(f, opts, process_file(f, opts, wk, Head(files)), Tail(files))

\* "for file in files { if self.truncated { break; } self.process_file(&file)?; }"
RECURSIVE ProcessFiles(_, _, _, _)
ProcessFiles(f, opts, wk, files) ==
    IF files = <<>> \/ wk.truncated THEN wk
    ELSE ProcessFiles(f, opts, process_file(f, opts, wk, Head(files)), Tail(files))

\* the entries left in the order read_dir yielded them
EntriesUnsorted(all_entries) == all_entries

\* all_entries.sort()
SortEntries(all_entries) == SortPaths(all_entries)

\* process_directory_bfs that filters the entries before the managers have
\* checked the directory for its own ignore file
process_directory_bfs_checks_last(f, opts, wk, path, order) ==
    IF wk.truncated THEN [wk |-> wk, subdirs |-> <<>>]
    ELSE LET wk1 == [wk EXCEPT !.stats = record_directory(@)] IN
         IF ~CanReadDir(f, path)
         THEN [wk |-> [CheckDirectories(f, wk1, path, 1) EXCEPT !.err = TRUE],
               subdirs |-> <<>>]
         ELSE LET parts == Partition(f, opts, wk1, SortEntries(order), <<>>, <<>>) IN
              [wk |-> CheckDirectories(f, ProcessFiles(f, opts, parts.wk, parts.files),
                                       path, 1),
               subdirs |-> parts.subdirs]

\* DirectoryWalker::process_directory_bfs; order is the order read_dir yields the
\* entries in.  Returns the walker and the subdirectories to queue.
process_directory_bfs(f, opts, wk, path, order) ==
    IF wk.truncated THEN [wk |-> wk, subdirs |-> <<>>]
    ELSE LET wk1 == CheckDirectories(f, [wk EXCEPT !.stats = record_directory(@)], path, 1) IN
         IF ~CanReadDir(f, path) THEN [wk |-> [wk1 EXCEPT !.err = TRUE], subdirs |-> <<>>]
         ELSE LET parts == Partition(f, opts, wk1, SortEntries(order), <<>>, <<>>) IN
              [wk |-> ProcessFiles(f, opts, parts.wk, parts.files), subdirs |-> parts.subdirs]

\* a visited-path check that never finds the path
NeverVisited(f, wk, path) == FALSE

\* the visited-path check of process_path_bfs: TRUE when the path is to be skipped
AlreadyVisited(f, wk, path) == Canonicalize(f, path) \in wk.visited_paths

\* DirectoryWalker::process_path_bfs
process_path_bfs(f, opts, wk, path, order) ==
    IF wk.truncated THEN [wk |-> wk, subdirs |-> <<>>]
    ELSE IF ~Exists(f, path) THEN [wk |-> wk, subdirs |-> <<>>]
    ELSE IF AlreadyVisited(f, wk, path) THEN [wk |-> wk, subdirs |-> <<>>]
    ELSE LET wk1 == [wk EXCEPT !.visited_paths = @ \cup {Canonicalize(f, path)}] IN
         IF ~opts.include_all /\ Ignored(f, opts, wk1, path)
         THEN [wk |-> [wk1 EXCEPT !.stats = RecordGitignored(f, @, path)], subdirs |-> <<>>]
         ELSE IF IsFile(f, path)
         THEN IF ~opts.include_all /\ IsDotName(path)
              THEN [wk |-> [wk1 EXCEPT !.stats = record_skipped_file(@)], subdirs |-> <<>>]
              ELSE [wk |-> process_file(f, opts, wk1, path), subdirs |-> <<>>]
         ELSE IF IsDir(f, path)
         THEN IF ~opts.include_all /\ IsDotName(path)
              THEN [wk |-> [wk1 EXCEPT !.stats = record_skipped_directory(@)],
                    subdirs |-> <<>>]
              ELSE process_directory_bfs(f, opts, wk1, path, order)
         ELSE [wk |-> wk1, subdirs |-> <<>>]

\* the iteration with the subdirectories pushed at the front of the queue
WalkStepDepthFirst(f, opts, wk, order) ==
    LET path == Head(wk.queue)
        r == process_path_bfs(f, opts, [wk EXCEPT !.queue = Tail(@)], path, order)
    IN IF r.wk.err THEN r.wk ELSE [r.wk EXCEPT !.queue = r.subdirs \o @]

\* one iteration of the loop of walk() that does not break: pop the front of the
\* queue, process it and push the subdirectories it returns at the back
WalkStep(f, opts, wk, order) ==
    LET path == Head(wk.queue)
        r == process_path_bfs(f, opts, [wk EXCEPT !.queue = Tail(@)], path, order)
    IN IF r.wk.err THEN r.wk ELSE [r.wk EXCEPT !.queue = @ \o r.subdirs]

\* the orders in which read_dir may yield the entries of the path at the front of
\* the queue (one empty order when the front is not a directory that can be read)
EnumOrders(f, wk) ==
    IF wk.queue # <<>> /\ CanReadDir(f, Head(wk.queue))
    THEN Perms(ReadDir(f, Head(wk.queue)))
    ELSE {<<>>}

\* the length of contents put one after the other with nothing between
ContentLenNoSeparator(contents) == SumSeq([i \in 1..Len(contents) |-> contents[i].len])

\* the length of contents joined by a blank line ("\n\n")
ContentLenBlankLine(contents) ==
    SumSeq([i \in 1..Len(contents) |-> contents[i].len]) + 2 * Max(Len(contents) - 1, 0)

\* contents.join("\n").len()
ContentLen(contents) ==
    SumSeq([i \in 1..Len(contents) |-> contents[i].len]) + Max(Len(contents) - 1, 0)

\* the WalkResult walk() returns
WalkResult(wk) ==
    [content |-> wk.contents, content_len |-> ContentLen(wk.contents),
     stats |-> wk.stats, truncated |-> wk.truncated]

----------------------------------------------------------------------------
(* thread_pool.rs: SharedWorkQueue *)

\* the worker threads
NumWorkers == 2

Workers == 1..NumWorkers

\* SharedWorkQueue::new
NewWorkQueue == [queue |-> <<>>, active_tasks |-> 0, shutdown |-> FALSE]

\* a worker thread that has not called anything yet: it is about to call pop
NewWorker == [at |-> "pop", path |-> <<>>, notified |-> FALSE]

\* a notification that reaches no waiting thread
notify_none(ws) == ws

\* Condvar::notify_all: every worker inside cvar.wait is woken
notify_all(ws) ==
    [i \in DOMAIN ws |-> IF ws[i].at = "wait" THEN [ws[i] EXCEPT !.notified = TRUE] ELSE ws[i]]

\* SharedWorkQueue::push_initial
push_initial(q, path) == [q EXCEPT !.queue = Append(@, path), !.active_tasks = 1]

\* pop that looks at the queue before it looks at shutdown
pop_queue_first(q) ==
    IF q.queue # <<>>
    THEN [wq |-> [q EXCEPT !.queue = Tail(@)], ret |-> "Some", path |-> Head(q.queue),
          notify |-> FALSE]
    ELSE IF q.shutdown THEN [wq |-> q, ret |-> "None", path |-> <<>>, notify |-> FALSE]
    ELSE IF q.active_tasks = 0
    THEN [wq |-> [q EXCEPT !.shutdown = TRUE], ret |-> "None", path |-> <<>>,
          notify |-> TRUE]
    ELSE [wq |-> q, ret |-> "Wait", path |-> <<>>, notify |-> FALSE]

\* pop that gives up as soon as the queue is empty
pop_exits_when_empty(q) ==
    IF q.shutdown THEN [wq |-> q, ret |-> "None", path |-> <<>>, notify |-> FALSE]
    ELSE IF q.queue # <<>>
    THEN [wq |-> [q EXCEPT !.queue = Tail(@)], ret |-> "Some",
          path |-> Head(q.queue), notify |-> FALSE]
    ELSE [wq |-> [q EXCEPT !.shutdown = TRUE], ret |-> "None", path |-> <<>>,
          notify |-> TRUE]

\* one pass of the loop of SharedWorkQueue::pop, the lock held: the queue after
\* it, what pop returns ("Wait": it calls cvar.wait and loops), and whether it
\* called notify_all
pop(q) ==
    IF q.shutdown THEN [wq |-> q, ret |-> "None", path |-> <<>>, notify |-> FALSE]
    ELSE IF q.queue # <<>>
    THEN [wq |-> [q EXCEPT !.queue = Tail(@)], ret |-> "Some", path |-> Head(q.queue),
          notify |-> FALSE]
    ELSE IF q.active_tasks = 0
    THEN [wq |-> [q EXCEPT !.shutdown = TRUE], ret |-> "None", path |-> <<>>,
          notify |-> TRUE]
    ELSE [wq |-> q, ret |-> "Wait", path |-> <<>>, notify |-> FALSE]

\* extend that does not look at shutdown
extend_in_shutdown(q, new_paths) ==
    IF new_paths = <<>> THEN [wq |-> q, notify |-> FALSE]
    ELSE [wq |-> [q EXCEPT !.queue = @ \o new_paths, !.active_tasks = @ + Len(new_paths)],
          notify |-> TRUE]

\* SharedWorkQueue::extend: the queue after it, and whether it called notify_all
extend(q, new_paths) ==
    IF new_paths = <<>> THEN [wq |-> q, notify |-> FALSE]
    ELSE IF q.shutdown THEN [wq |-> q, notify |-> FALSE]
    ELSE [wq |-> [q EXCEPT !.queue = @ \o new_paths, !.active_tasks = @ + Len(new_paths)],
          notify |-> TRUE]

\* SharedWorkQueue::complete_task; usize::saturating_sub stops at 0
complete_task(q) == [q EXCEPT !.active_tasks = Max(@ - 1, 0)]

\* SharedWorkQueue::shutdown
shutdown(q) == [q EXCEPT !.shutdown = TRUE]

\* SharedWorkQueue::is_shutdown
is_shutdown(q) == q.shutdown

\* the run of the workers before anything was pushed
NewPool(roots) ==
    [to_push |-> roots, started |-> FALSE, forced |-> FALSE,
     pushed |-> <<>>, popped |-> <<>>, completed |-> <<>>]

\* no work queue is in use
PoolIdle ==
    /\ wq = NewWorkQueue
    /\ workers = [i \in Workers |-> NewWorker]
    /\ pool = NewPool(<<>>)

----------------------------------------------------------------------------
(* The trees the walks run on *)

R == <<"r">>

P1(a) == <<R, a>>

P2(a, b) == <<R, a, b>>

P3(a, b, c) == <<R, a, b, c>>

\* plain tree: files at three depths, two directories side by side, a dot file,
\* a dot directory with a file in it, a binary file, an upper-case extension
TreePlain ==
    (<<R>> :> Dir(TRUE))
    @@ (P1(<<"a", ".", "t">>) :> TextFile(3))
    @@ (P1(<<"d">>) :> Dir(TRUE))
    @@ (P1(<<"e">>) :> Dir(TRUE))
    @@ (P1(<<".", "e">>) :> TextFile(2))
    @@ (P2(<<"d">>, <<"b", ".", "T">>) :> TextFile(4))
    @@ (P2(<<"d">>, <<"n">>) :> Dir(TRUE))
    @@ (P2(<<"d">>, <<".", "h">>) :> Dir(TRUE))
    @@ (P3(<<"d">>, <<"n">>, <<"c", ".", "t">>) :> TextFile(5))
    @@ (P3(<<"d">>, <<".", "h">>, <<"k", ".", "t">>) :> TextFile(1))
    @@ (P2(<<"e">>, <<"f", ".", "t">>) :> TextFile(2))
    @@ (P2(<<"e">>, <<"z">>) :> File(6, TRUE, 2, TRUE))

\* tree with ignore files: one at the root, one in the directory d
TreeIgnore ==
    (<<R>> :> Dir(TRUE))
    @@ (P1(GitignoreName) :>
          IgnoreFile(<< <<"#", " ", "c">>, <<"*", ".", "o">>, <<" ">>, <<".", "s">>,
                        <<"g", "/">> >>))
    @@ (P1(<<"a", ".", "t">>) :> TextFile(3))
    @@ (P1(<<".", "s">>) :> TextFile(2))
    @@ (P1(<<"d">>) :> Dir(TRUE))
    @@ (P2(<<"d">>, GitignoreName) :>
          IgnoreFile(<< <<"!", "*", ".", "o">>, <<"/", "x", ".", "t">> >>))
    @@ (P2(<<"d">>, <<"k", ".", "o">>) :> TextFile(4))
    @@ (P2(<<"d">>, <<"g">>) :> Dir(TRUE))
    @@ (P2(<<"d">>, <<"x", ".", "t">>) :> TextFile(2))
    @@ (P3(<<"d">>, <<"g">>, <<"f", ".", "t">>) :> TextFile(1))

\* tree with symbolic links: to a file beside it, to a directory beside it, to an
\* ancestor (a cycle) and to nothing (dangling)
TreeLinks ==
    (<<R>> :> Dir(TRUE))
    @@ (P1(<<"a", ".", "t">>) :> TextFile(3))
    @@ (P1(<<"l", ".", "t">>) :> Link(P1(<<"a", ".", "t">>)))
    @@ (P1(<<"c">>) :> Link(P1(<<"d">>)))
    @@ (P1(<<"d">>) :> Dir(TRUE))
    @@ (P2(<<"d">>, <<"b", ".", "t">>) :> TextFile(4))
    @@ (P2(<<"d">>, <<"u">>) :> Link(<<R>>))
    @@ (P2(<<"d">>, <<".", "z">>) :> Link(P1(<<"m">>)))

\* tree with files of every classification, a file above and a file at the
\* per-file cap, and a directory that cannot be read
TreeKinds ==
    (<<R>> :> Dir(TRUE))
    @@ (P1(<<"b", ".", "t">>) :> TextFile(FileCap + 20))
    @@ (P1(<<"u">>) :> File(3, FALSE, 0, TRUE))
    @@ (P1(<<"x">>) :> File(5, TRUE, 1, TRUE))
    @@ (P1(<<"s">>) :> Dir(TRUE))
    @@ (P2(<<"s">>, <<"i", ".", "t">>) :> File(4, TRUE, 0, FALSE))
    @@ (P2(<<"s">>, <<"n">>) :> Dir(FALSE))
    @@ (P2(<<"s">>, <<"e", ".", "t">>) :> TextFile(FileCap))

\* a tree together with the root lists it is walked from
Scenarios ==
    {[tree |-> TreePlain, paths |-> ps] :
        ps \in {<< <<R>> >>, << P1(<<"d">>) >>, << <<R>>, P1(<<"d">>) >>,
                << P1(<<"d">>), <<R>> >>, << P2(<<"d">>, <<".", "h">>) >>,
                << <<R>>, P1(<<".", "e">>) >>}}
    \cup {[tree |-> TreeIgnore, paths |-> ps] :
        ps \in {<< <<R>> >>, << P1(<<"d">>) >>, << <<R>>, P1(<<"d">>) >>}}
    \cup {[tree |-> TreeLinks, paths |-> ps] :
        ps \in {<< <<R>> >>, << <<R>>, P1(<<"d">>) >>, << P1(<<"d">>), <<R>> >>,
                << P1(<<"a", ".", "t">>), <<R>> >>, << <<R>>, P1(<<"l", ".", "t">>) >>,
                << P1(<<"c">>) >>, << P1(<<"m">>), <<R>> >>}}
    \cup {[tree |-> TreeKinds, paths |-> ps] :
        ps \in {<< <<R>> >>, << P1(<<"s">>), <<R>> >>, << P1(<<"b", ".", "t">>), <<R>> >>}}

\* the per-file cap of the walks that skip no file for its size
NoFileCap == 1000

OptionSets ==
    [include_all : BOOLEAN,
     max_size : {SmallCap, MidCap, DEFAULT_MAX_SIZE},
     max_file_size : {FileCap, NoFileCap},
     exclude_patterns : {<<>>}]

\* the lists of user-supplied exclude patterns walked with: a directory name, a
\* glob for files and a name at two depths
ExcludeLists ==
    {<< <<"n">>, <<"f", ".", "t">> >>, << <<"*", ".", "t">>, <<"z">> >>, << <<"?">> >>,
     << <<"d", "*">> >>}

\* the options of the walks with exclude patterns
OptionSetsExclude ==
    [include_all : BOOLEAN,
     max_size : {MidCap, DEFAULT_MAX_SIZE},
     max_file_size : {NoFileCap},
     exclude_patterns : ExcludeLists]

----------------------------------------------------------------------------
(* walk_and_collect as a state machine *)

NoResult == [content |-> <<>>, content_len |-> 0, stats |-> NewStats, truncated |-> FALSE]

\* walk_and_collect has built the walker (DirectoryWalker::new) and adds the roots
Init ==
    /\ \E sc \in Scenarios : fs = sc.tree /\ paths = sc.paths
    /\ options \in OptionSets
    /\ w = NewWalker
    /\ w2 = NewWalker
    /\ trace = [dequeued |-> <<>>, processed |-> <<>>, expanded |-> <<>>]
    /\ pc = "add_roots"
    /\ result = NoResult
    /\ PoolIdle

\* "for path in paths { walker.add_root(path); }": one root
AddRoot ==
    /\ pc = "add_roots"
    /\ Len(w.root_paths) < Len(paths)
    /\ w' = add_root(fs, w, paths[Len(w.root_paths) + 1])
    /\ w2' = add_root(fs, w2, paths[Len(w2.root_paths) + 1])
    /\ UNCHANGED <<fs, options, paths, trace, pc, result>>
    /\ UNCHANGED poolvars

\* walk() seeds the queue with the roots
StartWalk ==
    /\ pc = "add_roots"
    /\ Len(w.root_paths) = Len(paths)
    /\ w' = [w EXCEPT !.queue = w.root_paths]
    /\ w2' = [w2 EXCEPT !.queue = w2.root_paths]
    /\ pc' = "walking"
    /\ UNCHANGED <<fs, options, paths, trace, result>>
    /\ UNCHANGED poolvars

\* the second walk keeps step with the first as long as it has a step to take
Step2(wk) ==
    IF wk.queue # <<>> /\ ~wk.truncated /\ ~wk.err
    THEN {WalkStep(fs, options, wk, o) : o \in EnumOrders(fs, wk)}
    ELSE {wk}

\* one iteration of "while let Some(path) = queue.pop_front()" that processes the path
Dequeue ==
    /\ pc = "walking"
    /\ w.queue # <<>>
    /\ ~w.truncated
    /\ w' \in {WalkStep(fs, options, w, o) : o \in EnumOrders(fs, w)}
    /\ w2' \in Step2(w2)
    /\ trace' = [dequeued |-> Append(trace.dequeued, Head(w.queue)),
                 processed |-> IF w'.visited_paths # w.visited_paths
                               THEN Append(trace.processed, Head(w.queue))
                               ELSE trace.processed,
                 expanded |-> IF w'.stats.directories_processed
                                    > w.stats.directories_processed
                              THEN Append(trace.expanded, Head(w.queue))
                              ELSE trace.expanded]
    /\ pc' = IF w'.err THEN "error" ELSE "walking"
    /\ UNCHANGED <<fs, options, paths, result>>
    /\ UNCHANGED poolvars

\* the iteration that pops a path, finds truncated set and breaks; walk() returns
Break ==
    /\ pc = "walking"
    /\ w.queue # <<>>
    /\ w.truncated
    /\ w' = [w EXCEPT !.queue = Tail(@)]
    /\ w2' = IF w2.queue # <<>> /\ w2.truncated THEN [w2 EXCEPT !.queue = Tail(@)] ELSE w2
    /\ result' = WalkResult(w)
    /\ pc' = "done"
    /\ UNCHANGED <<fs, options, paths, trace>>
    /\ UNCHANGED poolvars

\* the queue is empty: walk() returns
Return ==
    /\ pc = "walking"
    /\ w.queue = <<>>
    /\ result' = WalkResult(w)
    /\ pc' = "done"
    /\ UNCHANGED <<fs, options, paths, w, w2, trace>>
    /\ UNCHANGED poolvars

Next == AddRoot \/ StartWalk \/ Dequeue \/ Break \/ Return

Spec == Init /\ [][Next]_vars

\* walk_and_collect called with exclude patterns
InitExclude ==
    /\ \E sc \in Scenarios : fs = sc.tree /\ paths = sc.paths
    /\ options \in OptionSetsExclude
    /\ w = NewWalker
    /\ w2 = NewWalker
    /\ trace = [dequeued |-> <<>>, processed |-> <<>>, expanded |-> <<>>]
    /\ pc = "add_roots"
    /\ result = NoResult
    /\ PoolIdle

SpecExclude == InitExclude /\ [][Next]_vars

----------------------------------------------------------------------------
(* One ignore file: parse_gitignore, then GitignoreMatcher::should_ignore *)

\* the longest ignore file
MaxLines == 3

\* the lines the ignore files are made of
MatcherLines ==
    {<<"*", ".", "o">>, <<"!", "a", ".", "o">>, <<"g", "/">>, <<"!", "g">>,
     <<"/", "a", ".", "o">>, <<"!", "*">>, <<"#", "a">>,
     <<"a", ".", "o", "/">>, <<"!", "a", ".", "o", "/">>, <<"*">>}

\* the ignore files: every sequence of at most MaxLines lines
MatcherContents == UNION {[1..n -> MatcherLines] : n \in 0..MaxLines}

\* the tree the matcher is asked about, its base directory being r
MatcherTree ==
    (<<R>> :> Dir(TRUE))
    @@ (P1(<<"a", ".", "o">>) :> TextFile(1))
    @@ (P1(<<"g">>) :> Dir(TRUE))
    @@ (P2(<<"g">>, <<"a", ".", "o">>) :> TextFile(1))
    @@ (P1(<<"b", ".", "t">>) :> TextFile(1))
    @@ (<< <<"x">> >> :> Dir(TRUE))
    @@ (<< <<"x">>, <<"a", ".", "o">> >> :> TextFile(1))

\* the state before a matcher is built: the content of the ignore file and the
\* path that will be asked about are in trace
InitMatcher ==
    /\ fs = MatcherTree
    /\ paths = << <<R>> >>
    /\ options \in {o \in OptionSets : ~o.include_all /\ o.max_size = SmallCap
                                         /\ o.max_file_size = FileCap}
    /\ w = NewWalker
    /\ w2 = NewWalker
    /\ trace \in [content : MatcherContents, path : DOMAIN MatcherTree]
    /\ pc = "new_matcher"
    /\ result = [matcher |-> NewMatcher(<<>>, <<R>>), ignored |-> FALSE]
    /\ PoolIdle

\* GitignoreMatcher::new on the content, with base directory r
BuildMatcher ==
    /\ pc = "new_matcher"
    /\ result' = [result EXCEPT !.matcher = NewMatcher(trace.content, <<R>>)]
    /\ pc' = "should_ignore"
    /\ UNCHANGED <<fs, options, paths, w, w2, trace>>
    /\ UNCHANGED poolvars

\* GitignoreMatcher::should_ignore on the path
AskMatcher ==
    /\ pc = "should_ignore"
    /\ result' = [result EXCEPT !.ignored = matcher_should_ignore(fs, result.matcher, trace.path)]
    /\ pc' = "answered"
    /\ UNCHANGED <<fs, options, paths, w, w2, trace>>
    /\ UNCHANGED poolvars

NextMatcher == BuildMatcher \/ AskMatcher

SpecMatcher == InitMatcher /\ [][NextMatcher]_vars

----------------------------------------------------------------------------
(* GlobMatcher::matches on its own *)

\* the longest text and the longest pattern
MaxGlobLen == 3

\* the characters of the texts: two of one byte and one of two bytes
TextAlphabet == {"a", "b", TwoByteChar}

\* the characters of the patterns: the two wildcards and two literal characters
PatternAlphabet == {"*", "?", "a", TwoByteChar}

\* the sequences over an alphabet of at most MaxGlobLen characters
StringsOver(alphabet) == UNION {[1..n -> alphabet] : n \in 0..MaxGlobLen}

\* the state before a call of matches: text and pattern are in trace
InitGlob ==
    /\ fs = MatcherTree
    /\ paths = << <<R>> >>
    /\ options \in {o \in OptionSets : ~o.include_all /\ o.max_size = SmallCap
                                         /\ o.max_file_size = FileCap}
    /\ w = NewWalker
    /\ w2 = NewWalker
    /\ trace \in [text : StringsOver(TextAlphabet), pattern : StringsOver(PatternAlphabet)]
    /\ pc = "matches"
    /\ result = [matched |-> FALSE]
    /\ PoolIdle

\* GlobMatcher::matches(text, pattern)
CallMatches ==
    /\ pc = "matches"
    /\ result' = [matched |-> matches(trace.text, trace.pattern)]
    /\ pc' = "matched"
    /\ UNCHANGED <<fs, options, paths, w, w2, trace>>
    /\ UNCHANGED poolvars

NextGlob == CallMatches

SpecGlob == InitGlob /\ [][NextGlob]_vars

----------------------------------------------------------------------------
(* GitignoreMatcher::parse_gitignore on its own *)

\* the longest line
MaxLineLen == 3

\* the characters of the lines: the three markers, the blank and a letter
LineAlphabet == {"!", "/", "#", " ", "a"}

\* every line of at most MaxLineLen characters
ParseLines == UNION {[1..n -> LineAlphabet] : n \in 0..MaxLineLen}

\* the lines that follow or precede the line that varies
FixedLines == {<<"!", "a", "/">>, <<" ", "#", " ">>, <<"a">>}

\* the contents parsed: one line, one line before a fixed line, one line
\* between two fixed lines
ParseContents ==
    {<<>>} \cup {<<l>> : l \in ParseLines}
    \cup {<<l, m>> : l \in ParseLines, m \in FixedLines}
    \cup {<<m, l, n>> : l \in ParseLines, m \in {<<"a">>}, n \in FixedLines}

\* the state before a call of parse_gitignore: the content is in trace
InitParse ==
    /\ fs = MatcherTree
    /\ paths = << <<R>> >>
    /\ options \in {o \in OptionSets : ~o.include_all /\ o.max_size = SmallCap
                                         /\ o.max_file_size = FileCap}
    /\ w = NewWalker
    /\ w2 = NewWalker
    /\ trace \in [content : ParseContents]
    /\ pc = "parse_gitignore"
    /\ result = [patterns |-> <<>>]
    /\ PoolIdle

\* GitignoreMatcher::parse_gitignore(content)
CallParse ==
    /\ pc = "parse_gitignore"
    /\ result' = [patterns |-> parse_gitignore(trace.content)]
    /\ pc' = "parsed"
    /\ UNCHANGED <<fs, options, paths, w, w2, trace>>
    /\ UNCHANGED poolvars

NextParse == CallParse

SpecParse == InitParse /\ [][NextParse]_vars

----------------------------------------------------------------------------
(* GitignoreMatcher::matches_pattern and match_parts on their own *)

\* the most segments of a path and of a pattern
MaxParts == 3

\* the segments of the relative paths and of the patterns
PathSegments == {<<"a">>, <<"b">>}

PatternSegments == {<<"a">>, <<"b">>, <<"*">>, <<"*", "*">>}

SegmentsOver(S) == UNION {[1..n -> S] : n \in 0..MaxParts}

\* the state before a call of match_parts or of matches_pattern: the arguments
\* are in trace, path and pattern as their segments
InitPattern ==
    /\ fs = MatcherTree
    /\ paths = << <<R>> >>
    /\ options \in {o \in OptionSets : ~o.include_all /\ o.max_size = SmallCap
                                         /\ o.max_file_size = FileCap}
    /\ w = NewWalker
    /\ w2 = NewWalker
    /\ pc \in {"match_parts", "matches_pattern"}
    /\ trace \in [path_parts : SegmentsOver(PathSegments),
                  pattern_parts : SegmentsOver(PatternSegments),
                  start_idx : 0..MaxParts,
                  is_absolute : BOOLEAN]
    /\ trace.start_idx <= Len(trace.path_parts)
    /\ pc = "match_parts" => ~trace.is_absolute
    /\ pc = "matches_pattern" => trace.start_idx = 0 /\ trace.path_parts # <<>>
    /\ result = [matched |-> FALSE]
    /\ PoolIdle

\* GitignoreMatcher::match_parts(path_parts, pattern_parts, start_idx)
CallMatchParts ==
    /\ pc = "match_parts"
    /\ result' = [matched |-> match_parts(trace.path_parts, trace.pattern_parts,
                                          trace.start_idx)]
    /\ pc' = "parts_matched"
    /\ UNCHANGED <<fs, options, paths, w, w2, trace>>
    /\ UNCHANGED poolvars

\* GitignoreMatcher::matches_pattern(path, pattern, is_absolute)
CallMatchesPattern ==
    /\ pc = "matches_pattern"
    /\ result' = [matched |-> matches_pattern(JoinPath(trace.path_parts),
                                              JoinPath(trace.pattern_parts),
                                              trace.is_absolute)]
    /\ pc' = "pattern_matched"
    /\ UNCHANGED <<fs, options, paths, w, w2, trace>>
    /\ UNCHANGED poolvars

NextPattern == CallMatchParts \/ CallMatchesPattern

SpecPattern == InitPattern /\ [][NextPattern]_vars

----------------------------------------------------------------------------
(* Worker threads on a SharedWorkQueue: each repeats pop, extend(children),
   complete_task; the roots are pushed with push_initial before they start *)

\* the children a worker finds below a path: the directories of TreePlain
WorkChildren(path) ==
    IF path = <<R>> THEN <<P1(<<"d">>), P1(<<"e">>)>>
    ELSE IF path = P1(<<"d">>) THEN <<P2(<<"d">>, <<"n">>)>>
    ELSE <<>>

\* the lists of roots pushed with push_initial
SeedLists == {<<>>, << <<R>> >>, << P1(<<"d">>), P1(<<"e">>) >>}

InitPool ==
    /\ fs = TreePlain
    /\ paths = <<>>
    /\ options \in {o \in OptionSets : ~o.include_all /\ o.max_size = SmallCap
                                         /\ o.max_file_size = FileCap}
    /\ w = NewWalker
    /\ w2 = NewWalker
    /\ trace = [dequeued |-> <<>>, processed |-> <<>>, expanded |-> <<>>]
    /\ pc = "pool"
    /\ result = NoResult
    /\ wq = NewWorkQueue
    /\ workers = [i \in Workers |-> NewWorker]
    /\ pool \in {NewPool(roots) : roots \in SeedLists}

\* push_initial(root), before the workers start
PushInitial ==
    /\ ~pool.started
    /\ pool.to_push # <<>>
    /\ wq' = push_initial(wq, Head(pool.to_push))
    /\ pool' = [pool EXCEPT !.to_push = Tail(@), !.pushed = Append(@, Head(pool.to_push))]
    /\ UNCHANGED <<fs, options, paths, w, w2, trace, pc, result, workers>>

\* the worker threads are started
StartWorkers ==
    /\ ~pool.started
    /\ pool.to_push = <<>>
    /\ pool' = [pool EXCEPT !.started = TRUE]
    /\ UNCHANGED <<fs, options, paths, w, w2, trace, pc, result, wq, workers>>

\* worker i holds the lock and runs one pass of the loop of pop
PopPass(i) ==
    LET r == pop(wq) IN
    /\ wq' = r.wq
    /\ workers' = [(IF r.notify THEN notify_all(workers) ELSE workers) EXCEPT
                     ![i] = [at |-> CASE r.ret = "None" -> "done"
                                      [] r.ret = "Some" -> "extend"
                                      [] r.ret = "Wait" -> "wait",
                             path |-> r.path, notified |-> FALSE]]
    /\ pool' = IF r.ret = "Some" THEN [pool EXCEPT !.popped = Append(@, r.path)] ELSE pool
    /\ UNCHANGED <<fs, options, paths, w, w2, trace, pc, result>>

\* worker i calls pop
Pop(i) ==
    /\ pool.started
    /\ workers[i].at = "pop"
    /\ PopPass(i)

\* worker i, woken by notify_all, returns from cvar.wait and loops
Wake(i) ==
    /\ workers[i].at = "wait"
    /\ workers[i].notified
    /\ PopPass(i)

\* worker i returns from cvar.wait without having been notified, and loops
SpuriousWake(i) ==
    /\ workers[i].at = "wait"
    /\ ~workers[i].notified
    /\ PopPass(i)

\* worker i calls extend with the children of the path it holds
Extend(i) ==
    /\ workers[i].at = "extend"
    /\ LET r == extend(wq, WorkChildren(workers[i].path)) IN
       /\ wq' = r.wq
       /\ workers' = [(IF r.notify THEN notify_all(workers) ELSE workers) EXCEPT
                        ![i].at = "complete"]
       /\ pool' = IF r.wq # wq
                  THEN [pool EXCEPT !.pushed = @ \o WorkChildren(workers[i].path)]
                  ELSE pool
    /\ UNCHANGED <<fs, options, paths, w, w2, trace, pc, result>>

\* worker i calls complete_task
CompleteTask(i) ==
    /\ workers[i].at = "complete"
    /\ wq' = complete_task(wq)
    /\ workers' = [notify_all(workers) EXCEPT ![i].at = "pop", ![i].path = <<>>]
    /\ pool' = [pool EXCEPT !.completed = Append(@, workers[i].path)]
    /\ UNCHANGED <<fs, options, paths, w, w2, trace, pc, result>>

\* some thread calls shutdown()
ForceShutdown ==
    /\ ~pool.forced
    /\ wq' = shutdown(wq)
    /\ workers' = notify_all(workers)
    /\ pool' = [pool EXCEPT !.forced = TRUE]
    /\ UNCHANGED <<fs, options, paths, w, w2, trace, pc, result>>

NextPool ==
    \/ PushInitial
    \/ StartWorkers
    \/ \E i \in Workers : Pop(i)
    \/ \E i \in Workers : Wake(i)
    \/ \E i \in Workers : SpuriousWake(i)
    \/ \E i \in Workers : Extend(i)
    \/ \E i \in Workers : CompleteTask(i)
    \/ ForceShutdown

SpecPool == InitPool /\ [][NextPool]_vars

\* the scheduler lets every thread that can run take its step; a waiting thread
\* runs again once notified (a spurious wake-up may never come, and nothing
\* obliges any thread to call shutdown())
FairPool ==
    /\ WF_vars(PushInitial)
    /\ WF_vars(StartWorkers)
    /\ \A i \in Workers :
          /\ WF_vars(Pop(i))
          /\ WF_vars(Wake(i))
          /\ WF_vars(Extend(i))
          /\ WF_vars(CompleteTask(i))

SpecPoolFair == InitPool /\ [][NextPool]_vars /\ FairPool

----------------------------------------------------------------------------
(* Properties of the walk *)

\* the positions of the truncation markers in a sequence of blocks
MarkerPositions(contents) == {i \in 1..Len(contents) : contents[i].kind = "marker"}

\* the positions of the file blocks (text and binary) in a sequence of blocks
FilePositions(contents) == {i \in 1..Len(contents) : contents[i].kind # "marker"}

\* the sum of the lengths of the file blocks
FileBlocksLen(contents) ==
    SumSeq([i \in 1..Len(contents) |->
              IF contents[i].kind = "marker" THEN 0 ELSE contents[i].len])

\* C1: in every state of a walk total_size is the sum of the lengths of the
\* non-marker blocks pushed to contents so far, and it never exceeds max_size.
C1_TotalSizeWithinCap ==
    /\ w.total_size = FileBlocksLen(w.contents)
    /\ w.total_size <= options.max_size

\* a walk that pushed two file blocks and was then truncated
C1_Witness ==
    /\ pc = "done"
    /\ w.truncated
    /\ Cardinality(FilePositions(w.contents)) >= 2
    /\ w.total_size > 0

\* what a step leaves alone once truncated is set
C2_FrozenAfterTruncation ==
    w.truncated =>
        /\ w'.truncated
        /\ w'.contents = w.contents
        /\ w'.total_size = w.total_size
        /\ w'.stats = w.stats
        /\ w'.visited_paths = w.visited_paths
        /\ w'.gitignore_managers = w.gitignore_managers
        /\ trace' = trace

\* one marker exactly when truncated is set, and nothing after it
C2_MarkerIsLast ==
    /\ Cardinality(MarkerPositions(w.contents)) = (IF w.truncated THEN 1 ELSE 0)
    /\ MarkerPositions(w.contents) \subseteq {Len(w.contents)}
    /\ pc = "done" =>
          /\ result.truncated = (MarkerPositions(result.content) # {})
          /\ MarkerPositions(result.content) \subseteq {Len(result.content)}
          /\ result.content = w.contents

MarkerLen(r) == r.content[Len(r.content)].len

\* C3 as claimed: the content of a truncated walk is no longer than max_size plus
\* the length of the marker, separators included.
C3_ContentWithinCapPlusMarker ==
    (pc = "done" /\ result.truncated) =>
        result.content_len <= options.max_size + MarkerLen(result)

\* C3, amended: the content of a truncated walk is no longer than max_size plus
\* the length of the marker plus one separator for every file block before it.
C3_ContentWithinCapPlusMarkerAndSeparators ==
    (pc = "done" /\ result.truncated) =>
        /\ result.content_len
              = FileBlocksLen(result.content) + MarkerLen(result) + (Len(result.content) - 1)
        /\ result.content_len
              <= options.max_size + MarkerLen(result) + (Len(result.content) - 1)

\* a truncated walk whose content is longer than max_size plus the marker
C3_Witness ==
    /\ pc = "done"
    /\ result.truncated
    /\ result.content_len > options.max_size + MarkerLen(result)

\* the file blocks whose path leads to the same file as the path p
BlocksOf(contents, p) ==
    {i \in FilePositions(contents) : Canonicalize(fs, contents[i].path) = Canonicalize(fs, p)}

\* C4: a path is visited at most once per walk: the content of a file is emitted
\* at most once, also when the file can be reached under several names.
C4_EachFileEmittedAtMostOnce ==
    \A i \in FilePositions(w.contents) : BlocksOf(w.contents, w.contents[i].path) = {i}

IsProperPrefix(p, q) == IsPrefix(p, q) /\ Len(p) < Len(q)

\* the walk has two roots, a directory and one of its own subdirectories
OverlappingRoots ==
    /\ Len(paths) = 2
    /\ IsDir(fs, paths[1]) /\ IsDir(fs, paths[2])
    /\ IsProperPrefix(paths[1], paths[2]) \/ IsProperPrefix(paths[2], paths[1])

\* the files of the tree below a root that a walk with include_all emits when it
\* is not truncated: text or binary, and no larger than max_file_size
EmittedWithAll(p) ==
    /\ fs[p].kind = "file"
    /\ \E i \in 1..Len(paths) : IsProperPrefix(paths[i], p)
    /\ fs[p].size <= options.max_file_size
    /\ process(fs, p) \in {"Text", "Binary"}

\* C5: with a directory and one of its own subdirectories as the two roots, in
\* either order, the content of each file is in the result exactly once.
C5_OverlappingRootsEmitOnce ==
    OverlappingRoots =>
        /\ \A i \in FilePositions(w.contents) : BlocksOf(w.contents, w.contents[i].path) = {i}
        /\ (pc = "done" /\ options.include_all /\ ~result.truncated) =>
              \A p \in DOMAIN fs : EmittedWithAll(p) => Cardinality(BlocksOf(w.contents, p)) = 1

\* the files and directories of the tree that no path has been visited for yet
Unvisited == {p \in DOMAIN fs : fs[p].kind # "symlink"} \ w.visited_paths

\* an iteration that does not end the walk visits a new file or directory, or
\* else leaves the visited set alone and shortens the queue
C6_Progress ==
    (pc = "walking" /\ pc' = "walking") =>
        \/ Cardinality(Unvisited') < Cardinality(Unvisited)
        \/ Unvisited' = Unvisited /\ Len(w'.queue) < Len(w.queue)

C6_NoDirectoryExpandedTwice ==
    \A i, j \in 1..Len(trace.expanded) :
        Canonicalize(fs, trace.expanded[i]) = Canonicalize(fs, trace.expanded[j]) => i = j

\* C6: the walk terminates for every finite tree, also with a directory that is
\* a symbolic link to one of its ancestors: every iteration that does not end the
\* walk lowers the pair (files and directories not yet visited, length of the
\* queue) in the lexicographic order, so the iterations are finitely many, and no
\* directory is expanded twice under the same canonical path.
C6_Terminates == [][C6_Progress]_vars /\ []C6_NoDirectoryExpandedTwice

\* a finished walk that dequeued a link to an ancestor and did not expand it again
C6_Witness ==
    /\ pc = "done"
    /\ \E i \in 1..Len(trace.dequeued) :
          /\ Exists(fs, trace.dequeued[i])
          /\ IsProperPrefix(Canonicalize(fs, trace.dequeued[i]), trace.dequeued[i])
          /\ trace.dequeued[i] \notin Range(trace.processed)

\* C7: with a single root the emission is breadth-first: the files directly in a
\* directory come before every file of its subdirectories, and every file at
\* depth d comes before every file at depth d + 1.
C7_BreadthFirst ==
    Len(paths) = 1 =>
        \A i, j \in FilePositions(w.contents) :
            /\ IsProperPrefix(Parent(w.contents[i].path), Parent(w.contents[j].path)) => i < j
            /\ Len(w.contents[i].path) < Len(w.contents[j].path) => i < j

\* a finished walk of one root that emitted files at three depths, one of them
\* from a directory beside the one that holds the deepest
C7_Witness ==
    /\ pc = "done"
    /\ Len(paths) = 1
    /\ \E i, j, k \in FilePositions(w.contents) :
          /\ Len(w.contents[i].path) + 1 = Len(w.contents[j].path)
          /\ Len(w.contents[j].path) + 1 = Len(w.contents[k].path)
          /\ ~IsPrefix(Parent(w.contents[j].path), w.contents[k].path)

Ascending(s) == \A i \in 1..(Len(s) - 1) : PathLess(s[i], s[i + 1])

\* the paths of the file blocks an iteration pushed, and the paths it queued
NewlyEmitted ==
    LET new == SubSeq(w'.contents, Len(w.contents) + 1, Len(w'.contents))
        files == SelectSeq(new, LAMBDA b : b.kind # "marker")
    IN [i \in 1..Len(files) |-> files[i].path]

NewlyQueued == SubSeq(w'.queue, Len(w.queue), Len(w'.queue))

C8_SortedStep ==
    (pc = "walking" /\ w.queue # <<>> /\ ~w.truncated /\ ~w'.err) =>
        Ascending(NewlyEmitted) /\ Ascending(NewlyQueued)

\* C8: the files of one directory are emitted, and its subdirectories queued, in
\* ascending order of their paths, whatever the order read_dir yields them in.
C8_DirectoryInNameOrder == [][C8_SortedStep]_vars

\* the root was expanded: two files of it emitted, two subdirectories queued
C8_Witness ==
    /\ pc = "walking"
    /\ Len(trace.expanded) = 1
    /\ Cardinality(FilePositions(w.contents)) >= 2
    /\ Len(w.queue) >= 2

\* C9: two walks of the same tree with the same roots and options that differ
\* only in the order read_dir yields the entries in agree in every step, and
\* return the same content, truncated flag and statistics.
C9_Determinism ==
    /\ w2 = w
    /\ pc = "done" => WalkResult(w2) = result

\* both walks finished after expanding three directories and emitting three blocks
C9_Witness ==
    /\ pc = "done"
    /\ Len(trace.expanded) >= 3
    /\ w2.stats.directories_processed >= 3
    /\ Len(result.content) >= 3

\* a name of the path below the root starts with '.'
DotBelow(root, p) == \E k \in (Len(root) + 1)..Len(p) : Len(p[k]) > 0 /\ p[k][1] = "."

\* the dot-named entries the walk came across: those listed in the directories it
\* expanded, and the dot-named paths (roots) that passed the visited check
DotEntriesListed(i) ==
    IF CanReadDir(fs, trace.expanded[i])
    THEN {e \in ReadDir(fs, trace.expanded[i]) : IsDotName(e)}
    ELSE {}

DotRootsProcessed == {i \in 1..Len(trace.processed) : IsDotName(trace.processed[i])}

\* whether a dot-named entry counts: every entry ("any"), or only a file ("file")
\* or a directory ("dir") that no manager ignores
DotCounts(which, e) ==
    CASE which = "any" -> TRUE
      [] which = "file" -> IsFile(fs, e) /\ ~AnyIgnores(fs, w, e)
      [] which = "dir" -> IsDir(fs, e) /\ ~AnyIgnores(fs, w, e)

\* how many of the dot-named entries the walk came across count
DotEncounters(which) ==
    SumSeq([i \in 1..Len(trace.expanded) |->
              Cardinality({e \in DotEntriesListed(i) : DotCounts(which, e)})])
    + Cardinality({i \in DotRootsProcessed : DotCounts(which, trace.processed[i])})

\* without include_all no block comes from a dot-named file or from below a
\* dot-named directory
C10_NoDotContent ==
    ~options.include_all =>
        \A i \in FilePositions(w.contents) :
            \E k \in 1..Len(paths) :
                /\ IsPrefix(paths[k], w.contents[i].path)
                /\ ~DotBelow(paths[k], w.contents[i].path)

\* with include_all no entry is skipped for its name, and a walk that is not
\* truncated emits the dot-named files and the files below dot-named directories
C10_DotContentWithAll ==
    options.include_all =>
        /\ w.stats.skipped_files = 0 /\ w.stats.skipped_directories = 0
        /\ (pc = "done" /\ ~result.truncated) =>
              \A p \in DOMAIN fs :
                  (EmittedWithAll(p) /\ \E k \in 1..Len(paths) : DotBelow(paths[k], p))
                      => BlocksOf(result.content, p) # {}

\* C10 as claimed: without include_all no dot-named file and no file below a
\* dot-named directory contributes content, and every dot-named entry the walk
\* comes across is recorded in the skipped file/directory counter.
C10_EveryDotEntrySkipped ==
    ~options.include_all =>
        /\ C10_NoDotContent
        /\ w.stats.skipped_files + w.stats.skipped_directories = DotEncounters("any")

\* C10, amended: without include_all no dot-named file and no file below a
\* dot-named directory contributes content, and every dot-named entry the walk
\* comes across that no manager ignores and that is a file or a directory is
\* recorded in the skipped file or directory counter; with include_all nothing is
\* skipped for its name and these files are emitted.
C10_DotEntries ==
    /\ C10_NoDotContent
    /\ ~options.include_all =>
          /\ w.stats.skipped_files = DotEncounters("file")
          /\ w.stats.skipped_directories = DotEncounters("dir")
    /\ C10_DotContentWithAll

\* a finished walk without include_all that came across a dot-named file that a
\* manager ignores and skipped another dot-named file
C10_Witness ==
    /\ pc = "done"
    /\ ~options.include_all
    /\ w.stats.skipped_files >= 1
    /\ DotEncounters("any") > DotEncounters("file") + DotEncounters("dir")

----------------------------------------------------------------------------
(* Properties of process_file *)

\* the calls of process_file that classified the file as class
HandledAs(wk, class) ==
    LET Is(e) == e.class = class IN SelectSeq(wk.handled, Is)

\* the blocks of one kind in a sequence of blocks
BlocksOfKind(contents, kind) ==
    LET Is(b) == b.kind = kind IN SelectSeq(contents, Is)

\* whether the last call of process_file found the file to be of class and set truncated
TruncatedBy(wk, class) ==
    wk.truncated /\ wk.handled # <<>> /\ wk.handled[Len(wk.handled)].class = class

\* all but the last element when drop holds
DropLastIf(s, drop) == IF drop /\ s # <<>> THEN SubSeq(s, 1, Len(s) - 1) ELSE s

\* C11: every file classified Binary increments the binary counter; without
\* include_all it gives no block, adds nothing to total_size and never sets
\* truncated; with include_all it gives a <BINARY_FILE> block unless that block
\* would pass the aggregate cap, in which case it sets truncated
C11_BinaryFiles ==
    LET binaries == HandledAs(w, "Binary")
        blocks == BlocksOfKind(w.contents, "binary")
        texts == BlocksOfKind(w.contents, "text")
    IN /\ w.stats.binary_files = Len(binaries)
       /\ \A i \in 1..Len(binaries) : is_binary(fs, binaries[i].path)
       /\ ~options.include_all =>
             /\ blocks = <<>>
             /\ w.total_size = SumSeq([i \in 1..Len(texts) |-> texts[i].len])
             /\ ~TruncatedBy(w, "Binary")
       /\ options.include_all =>
             /\ [i \in 1..Len(blocks) |-> blocks[i].path]
                  = DropLastIf([i \in 1..Len(binaries) |-> binaries[i].path],
                               TruncatedBy(w, "Binary"))
             /\ \A i \in 1..Len(blocks) : blocks[i] = BinaryBlock(blocks[i].path)

\* a finished walk without include_all that met a binary file and emitted a text
\* file after it
C11_Witness ==
    /\ pc = "done"
    /\ ~options.include_all
    /\ ~w.truncated
    /\ \E i, j \in 1..Len(w.handled) :
          i < j /\ w.handled[i].class = "Binary" /\ w.handled[j].class = "Text"

\* no file above the per-file cap has a block, and such a file is counted in no
\* classification counter: each counter counts calls of its own class only
C12_LargeFileNotClassified ==
    /\ \A i \in 1..Len(w.handled) :
          (w.handled[i].class = "Large") <=> ExceedsFileCap(fs, options, w.handled[i].path)
    /\ \A i \in 1..Len(w.contents) :
          w.contents[i].kind # "marker" => ~ExceedsFileCap(fs, options, w.contents[i].path)
    /\ w.stats.text_files = Len(BlocksOfKind(w.contents, "text"))
    /\ w.stats.binary_files = Len(HandledAs(w, "Binary"))
    /\ w.stats.unreadable_files = Len(HandledAs(w, "Unreadable"))
    /\ w.total_size = FileBlocksLen(w.contents)

\* the large-file-skip counter counts every file above the cap that was met once
C12_LargeFileCountedOnce ==
    LET larges == HandledAs(w, "Large") IN
    w.stats.skipped_large_files
        = Cardinality({Canonicalize(fs, larges[i].path) : i \in 1..Len(larges)})

\* C12: a file whose size exceeds max_file_size contributes no content, is not
\* classified (no text, binary or unreadable counter changes, total_size
\* unchanged) and increments the large-file-skip counter exactly once per walk
C12_LargeFiles == C12_LargeFileNotClassified /\ C12_LargeFileCountedOnce

----------------------------------------------------------------------------
(* Failures of single items *)

\* C13: no failure of a single item (an unreadable file, a directory that cannot
\* be listed, a dangling symlink, an unreadable ignore file) aborts the walk:
\* walk_and_collect never returns an error
C13_NoItemFailureAborts == ~w.err /\ pc # "error"

----------------------------------------------------------------------------
(* The content of the result *)

\* the length of the blocks of a result joined with sep bytes between every two
\* consecutive blocks
JoinedLen(r, sep) ==
    w.total_size + (IF r.truncated THEN MarkerLen(r) ELSE 0)
        + sep * Max(Len(r.content) - 1, 0)

\* C14, as claimed: the content is the blocks joined with a blank line (an empty
\* line, two line breaks) between every two consecutive blocks, and is empty
\* when no block was emitted
C14_JoinedByBlankLine ==
    pc = "done" =>
        /\ result.content_len = JoinedLen(result, 2)
        /\ result.content = <<>> => result.content_len = 0

\* C14, amended: the content is the blocks joined with one line break between
\* every two consecutive blocks, and is empty when no block was emitted
C14_JoinedByLineBreak ==
    pc = "done" =>
        /\ result.content_len = JoinedLen(result, 1)
        /\ result.content = <<>> => result.content_len = 0

\* a finished walk that emitted three file blocks and was not truncated
C14_Witness ==
    /\ pc = "done"
    /\ ~result.truncated
    /\ Len(result.content) >= 3

----------------------------------------------------------------------------
(* User-supplied exclude patterns *)

\* whether the whole text matches the pattern, where '*' stands for any sequence
\* of characters, '?' for one character and any other character for itself
RECURSIVE WholeMatch(_, _)
WholeMatch(text, pattern) ==
    IF pattern = <<>> THEN text = <<>>
    ELSE IF Head(pattern) = "*"
    THEN WholeMatch(text, Tail(pattern))
         \/ (text # <<>> /\ WholeMatch(Tail(text), pattern))
    ELSE /\ text # <<>>
         /\ Head(pattern) = "?" \/ Head(pattern) = Head(text)
         /\ WholeMatch(Tail(text), Tail(pattern))

\* a component of the path matches one of the exclude patterns of the walk
MatchesExclude(path) ==
    \E i \in 1..Len(options.exclude_patterns), j \in 1..Len(path) :
        WholeMatch(path[j], options.exclude_patterns[i])

\* how many paths the walk came across are of the kind ("file" or "dir") and are
\* ignored by a manager or excluded by a pattern: entries listed in the
\* directories it expanded, and paths that passed the visited check
IgnoredEncounters(kind) ==
    LET Counts(e) == /\ (AnyIgnores(fs, w, e) \/ MatchesExclude(e))
                     /\ IF kind = "file" THEN IsFile(fs, e) ELSE IsDir(fs, e)
    IN SumSeq([i \in 1..Len(trace.expanded) |->
                 IF CanReadDir(fs, trace.expanded[i])
                 THEN Cardinality({e \in ReadDir(fs, trace.expanded[i]) : Counts(e)})
                 ELSE 0])
       + Cardinality({i \in 1..Len(trace.processed) : Counts(trace.processed[i])})

----------------------------------------------------------------------------
(* Properties of one ignore matcher *)

\* the patterns of the matcher that apply to the path and match it: the path is
\* strictly below the base directory, the pattern is not for directories only
\* unless the path is a directory, and matches_pattern holds
ApplyingPatterns(matcher, path) ==
    LET relative_path == StripPrefix(path, matcher.base_path) IN
    IF relative_path = NoPrefix \/ relative_path = <<>> THEN {}
    ELSE {i \in 1..Len(matcher.patterns) :
            /\ matcher.patterns[i].is_directory_only => IsDir(fs, path)
            /\ matches_pattern(JoinPath(relative_path), matcher.patterns[i].pattern,
                                matcher.patterns[i].is_absolute)}

\* the greatest number of a set of numbers that is not empty
Greatest(S) == CHOOSE x \in S : \A y \in S : y <= x

\* C16: within one matcher the last pattern that applies to the path and matches
\* it decides: should_ignore is true iff that pattern is not a negation, and
\* false when no pattern matches
C16_LastMatchDecides ==
    pc = "answered" =>
        LET applying == ApplyingPatterns(result.matcher, trace.path) IN
        result.ignored
            <=> (applying # {} /\ ~result.matcher.patterns[Greatest(applying)].is_negation)

\* a later negation re-included a path an earlier pattern ignored, and a later
\* plain pattern ignored again a path a negation had re-included
C16_Witness ==
    /\ pc = "answered"
    /\ trace.content = << <<"!", "a", ".", "o">>, <<"*", ".", "o">>, <<"!", "a", ".", "o">> >>
    /\ trace.path = P2(<<"g">>, <<"a", ".", "o">>)
    /\ ~result.ignored

----------------------------------------------------------------------------
(* Properties of one ignore manager *)

\* the directories with a registered matcher that are the root of the manager or
\* lie on the way from the root down to the path
ChainMatchers(mgr, path) ==
    {d \in DOMAIN mgr.matchers : d = mgr.root_path
                                   \/ (IsPrefix(mgr.root_path, d) /\ IsPrefix(d, path))}

\* C17: a manager ignores a path iff at least one registered matcher at its root
\* or at a directory on the way from the root down to the path ignores it; so a
\* path a matcher nearer to the root ignores stays ignored whatever a deeper
\* matcher says
C17_AnyChainMatcherIgnores ==
    \A i \in 1..Len(w.gitignore_managers) : \A p \in DOMAIN fs :
        LET mgr == w.gitignore_managers[i] IN
        manager_should_ignore(fs, mgr, p)
            <=> \E d \in ChainMatchers(mgr, p) : matcher_should_ignore(fs, mgr.matchers[d], p)

\* the walk registered the matchers of r and r/d; r/d/k.o is ignored by the
\* matcher of r, re-included by the negation in the matcher of r/d, ignored by
\* the manager and counted as gitignored, and r/d/x.t is ignored by the matcher
\* of r/d alone
C17_Witness ==
    /\ fs = TreeIgnore
    /\ pc = "done"
    /\ ~options.include_all
    /\ Len(w.gitignore_managers) = 1
    /\ LET mgr == w.gitignore_managers[1]
           k == P2(<<"d">>, <<"k", ".", "o">>)
           x == P2(<<"d">>, <<"x", ".", "t">>)
       IN /\ {<<R>>, P1(<<"d">>)} \subseteq DOMAIN mgr.matchers
          /\ matcher_should_ignore(fs, mgr.matchers[<<R>>], k)
          /\ ApplyingPatterns(mgr.matchers[P1(<<"d">>)], k) # {}
          /\ ~matcher_should_ignore(fs, mgr.matchers[P1(<<"d">>)], k)
          /\ manager_should_ignore(fs, mgr, k)
          /\ ~matcher_should_ignore(fs, mgr.matchers[<<R>>], x)
          /\ manager_should_ignore(fs, mgr, x)
    /\ w.stats.gitignored_files >= 2

----------------------------------------------------------------------------
(* Properties of GlobMatcher::matches *)

\* C18: matches(text, pattern) is true iff the whole text matches the pattern
\* where '*' stands for any sequence of characters, '?' for exactly one
\* character and every other character for itself; the pattern "*" matches
\* every text and a pattern without wildcards matches only the equal text
C18_MatchesWholeText ==
    pc = "matched" =>
        /\ result.matched <=> WholeMatch(trace.text, trace.pattern)
        /\ trace.pattern = <<"*">> => result.matched
        /\ ("*" \notin Range(trace.pattern) /\ "?" \notin Range(trace.pattern))
              => (result.matched <=> trace.text = trace.pattern)

\* the same for the texts and patterns whose characters all take one byte
C18_MatchesWholeTextOneByteChars ==
    (pc = "matched" /\ TwoByteChar \notin Range(trace.text) \cup Range(trace.pattern)) =>
        (result.matched <=> WholeMatch(trace.text, trace.pattern))

----------------------------------------------------------------------------
(* Properties of parse_gitignore *)

\* the lines that are neither blank nor a comment; a line counts as it is
\* written, or (trimmed) with the blanks at its two ends removed
PatternLines(content, trimmed) ==
    LET Kept(l) == Trim(l) # <<>> /\ Head(IF trimmed THEN Trim(l) ELSE l) # "#" IN
    SelectSeq(content, Kept)

\* whether the pattern is the one the line gives: negation iff the line starts
\* with '!', directory-only iff what follows ends with '/', absolute iff what is
\* left starts with '/', and the text is the line without exactly these markers
PatternOfLine(pattern, line) ==
    LET after_negation == IF pattern.is_negation THEN Tail(line) ELSE line
        before_slash == IF pattern.is_directory_only
                        THEN SubSeq(after_negation, 1, Len(after_negation) - 1)
                        ELSE after_negation
    IN /\ pattern.is_negation <=> (line # <<>> /\ Head(line) = "!")
       /\ pattern.is_directory_only
             <=> (after_negation # <<>> /\ after_negation[Len(after_negation)] = "/")
       /\ pattern.is_absolute <=> (before_slash # <<>> /\ Head(before_slash) = "/")
       /\ line = (IF pattern.is_negation THEN <<"!">> ELSE <<>>)
                  \o (IF pattern.is_absolute THEN <<"/">> ELSE <<>>)
                  \o pattern.pattern
                  \o (IF pattern.is_directory_only THEN <<"/">> ELSE <<>>)

\* C19, as claimed: exactly one pattern per line that is neither blank nor a
\* comment, in file order, with the flags and the text read off the line
C19_OnePatternPerLine ==
    pc = "parsed" =>
        LET lines == PatternLines(trace.content, FALSE) IN
        /\ Len(result.patterns) = Len(lines)
        /\ \A i \in 1..Len(lines) : PatternOfLine(result.patterns[i], lines[i])

\* C19, amended: the same with every line taken without the blanks at its two
\* ends: a line is a comment when its first character that is not a blank is
\* '#', and the flags and the text are read off the trimmed line
C19_OnePatternPerTrimmedLine ==
    pc = "parsed" =>
        LET lines == PatternLines(trace.content, TRUE) IN
        /\ Len(result.patterns) = Len(lines)
        /\ \A i \in 1..Len(lines) : PatternOfLine(result.patterns[i], Trim(lines[i]))

\* "/a/" parsed to the text "a", anchored and directory-only, before "!a/"
C19_Witness ==
    /\ pc = "parsed"
    /\ trace.content = << <<"/", "a", "/">>, <<"!", "a", "/">> >>
    /\ result.patterns
         = << [pattern |-> <<"a">>, is_negation |-> FALSE, is_directory_only |-> TRUE,
               is_absolute |-> TRUE],
              [pattern |-> <<"a">>, is_negation |-> TRUE, is_directory_only |-> TRUE,
               is_absolute |-> FALSE] >>

\* whether the text has a marker character in marker position
MarkerInPosition(text) ==
    text # <<>> /\ (Head(text) \in {"!", "/"} \/ text[Len(text)] = "/")

\* whether a marker character is repeated in the line, or '!' follows '/'
RepeatsMarker(line) ==
    \E i \in 1..(Len(line) - 1) :
        <<line[i], line[i + 1]>> \in {<<"!", "!">>, <<"/", "/">>, <<"/", "!">>}

\* C24, as claimed: the text of every pattern parsed does not start with '!',
\* does not start with '/' and does not end with '/'
C24_NoMarkerInMarkerPosition ==
    pc = "parsed" =>
        \A i \in 1..Len(result.patterns) : ~MarkerInPosition(result.patterns[i].pattern)

\* C24, amended: each marker is removed once, so the text of the pattern of a
\* line does not start with '!', does not start with '/' and does not end with
\* '/' when the trimmed line has none of "!!", "//" and "/!" in it
C24_NoMarkerLeftOfUnrepeated ==
    pc = "parsed" =>
        LET lines == PatternLines(trace.content, TRUE) IN
        /\ Len(result.patterns) = Len(lines)
        /\ \A i \in 1..Len(lines) :
              ~RepeatsMarker(Trim(lines[i])) => ~MarkerInPosition(result.patterns[i].pattern)

\* "!/a" parsed to the text "a", and "a/" after it to the text "a"
C24_Witness ==
    /\ pc = "parsed"
    /\ trace.content = << <<"!", "/", "a">>, <<"!", "a", "/">> >>
    /\ result.patterns[1].pattern = <<"a">>
    /\ result.patterns[2].pattern = <<"a">>

\* position of the first "**" among the pattern segments, 0 when there is none
FirstDoubleStar(pattern_parts) ==
    IF \E j \in 1..Len(pattern_parts) : pattern_parts[j] = <<"*", "*">>
    THEN CHOOSE j \in 1..Len(pattern_parts) :
            /\ pattern_parts[j] = <<"*", "*">>
            /\ \A i \in 1..(j - 1) : pattern_parts[i] # <<"*", "*">>
    ELSE 0

\* the pattern segments before the first "**" match, one by one, the path
\* segments that follow start_idx
SegmentsBeforeMatch(path_parts, pattern_parts, start_idx) ==
    LET j == FirstDoubleStar(pattern_parts) IN
    /\ Len(path_parts) - start_idx >= j - 1
    /\ \A i \in 1..(j - 1) : glob_match(path_parts[start_idx + i], pattern_parts[i])

\* a call of match_parts whose pattern ends with its only "**" has returned true
\* when the segments before the "**" match, also with no path segment left
C25_LastDoubleStar ==
    pc = "parts_matched" /\ FirstDoubleStar(trace.pattern_parts) = Len(trace.pattern_parts)
        /\ trace.pattern_parts # <<>> =>
        result.matched
            = SegmentsBeforeMatch(trace.path_parts, trace.pattern_parts, trace.start_idx)

\* a call of match_parts whose pattern goes on after its first "**" has returned
\* true iff the segments before the "**" match and the rest of the pattern matches
\* from the position reached or from a later one
C25_InnerDoubleStar ==
    LET j == FirstDoubleStar(trace.pattern_parts) IN
    pc = "parts_matched" /\ j > 0 /\ j < Len(trace.pattern_parts) =>
        result.matched
            = /\ SegmentsBeforeMatch(trace.path_parts, trace.pattern_parts, trace.start_idx)
              /\ \E k \in (trace.start_idx + j - 1)..Len(trace.path_parts) :
                    match_parts(trace.path_parts,
                                SubSeq(trace.pattern_parts, j + 1, Len(trace.pattern_parts)),
                                k)

\* C25: in match_parts a "**" segment matches zero or more path segments: as the
\* last pattern segment it matches unconditionally, also when no path segment
\* remains; otherwise the match succeeds iff the rest of the pattern matches from
\* some later-or-equal path position
C25_DoubleStarZeroOrMore == C25_LastDoubleStar /\ C25_InnerDoubleStar

\* the pattern segments match, one by one, the first segments of the path
SegmentsFromFirst(path_parts, pattern_parts) ==
    /\ Len(path_parts) >= Len(pattern_parts)
    /\ \A i \in 1..Len(pattern_parts) : glob_match(path_parts[i], pattern_parts[i])

\* C26: matches_pattern matches a pattern that is anchored or contains '/'
\* segment by segment from the first segment of the relative path, never from a
\* deeper one; an unanchored pattern without '/' matches iff it glob-matches
\* some single segment of the path, at any depth
C26_AnchoredFromFirstSegment ==
    pc = "pattern_matched" =>
        LET pattern == JoinPath(trace.pattern_parts)
            pattern_parts == Split(pattern)
        IN IF trace.is_absolute \/ "/" \in Range(pattern)
           THEN /\ result.matched = match_parts(trace.path_parts, pattern_parts, 0)
                /\ FirstDoubleStar(pattern_parts) = 0 =>
                      result.matched = SegmentsFromFirst(trace.path_parts, pattern_parts)
           ELSE result.matched
                    = \E i \in 1..Len(trace.path_parts) :
                         glob_match(trace.path_parts[i], pattern)

\* the unanchored pattern "a/b" does not match "b/a/b", which it would match from
\* the second segment
C26_Witness ==
    /\ pc = "pattern_matched"
    /\ ~trace.is_absolute
    /\ trace.pattern_parts = << <<"a">>, <<"b">> >>
    /\ trace.path_parts = << <<"b">>, <<"a">>, <<"b">> >>
    /\ ~result.matched

\* the matcher with its directory-only patterns removed
WithoutDirectoryOnly(matcher) ==
    [matcher EXCEPT !.patterns = SelectSeq(@, LAMBDA p : ~p.is_directory_only)]

\* C27: for a path that is not a directory, should_ignore returns what it returns
\* with the directory-only patterns, plain or negated, removed from the matcher
C27_DirectoryOnlySkippedForFiles ==
    pc = "answered" /\ ~IsDir(fs, trace.path) =>
        result.ignored
            = matcher_should_ignore(fs, WithoutDirectoryOnly(result.matcher), trace.path)

\* the file r/a.o stays ignored by "*.o" although "!a.o/" follows
C27_Witness ==
    /\ pc = "answered"
    /\ trace.path = P1(<<"a", ".", "o">>)
    /\ trace.content = << <<"*", ".", "o">>, <<"!", "a", ".", "o", "/">> >>
    /\ result.ignored

\* C28: a matcher never ignores its own base directory nor a path that is not a
\* descendant of its base path, whatever its patterns are
C28_OnlyDescendantsIgnored ==
    pc = "answered"
        /\ (trace.path = result.matcher.base_path
               \/ ~IsPrefix(result.matcher.base_path, trace.path)) =>
        ~result.ignored

\* the matcher of r with the pattern "*" was asked about r itself and did not
\* ignore it
C28_Witness ==
    /\ pc = "answered"
    /\ trace.content = << <<"*">> >>
    /\ result.matcher.patterns # <<>>
    /\ trace.path = <<R>>
    /\ ~result.ignored

\* the second manager has every matcher of the first, unchanged, and its list of
\* active ignore files begins with the list of the first
GrowsOnly(mgr, later) ==
    /\ later.root_path = mgr.root_path
    /\ DOMAIN mgr.matchers \subseteq DOMAIN later.matchers
    /\ \A d \in DOMAIN mgr.matchers : later.matchers[d] = mgr.matchers[d]
    /\ IsPrefix(mgr.active_gitignores, later.active_gitignores)

\* a step of the walk keeps every manager and every matcher registered
C29_StepKeepsMatchers ==
    /\ Len(w'.gitignore_managers) >= Len(w.gitignore_managers)
    /\ \A i \in 1..Len(w.gitignore_managers) :
          GrowsOnly(w.gitignore_managers[i], w'.gitignore_managers[i])

\* calling check_directory again changes nothing, and no ignore file is listed
\* twice as active
C29_CheckDirectoryIdempotent ==
    \A i \in 1..Len(w.gitignore_managers) :
        LET mgr == w.gitignore_managers[i] IN
        /\ NoDuplicates(mgr.active_gitignores)
        /\ Len(mgr.active_gitignores) = Cardinality(DOMAIN mgr.matchers)
        /\ \A d \in DOMAIN fs :
              /\ d \in DOMAIN mgr.matchers => check_directory(fs, mgr, d) = mgr
              /\ check_directory(fs, check_directory(fs, mgr, d), d)
                    = check_directory(fs, mgr, d)

\* C29: the set of matchers of a manager only grows, no step removes or
\* replaces a registered matcher, and check_directory for a directory that has
\* a matcher changes neither the matchers nor the list of active ignore files
C29_MatchersOnlyGrow == []C29_CheckDirectoryIdempotent /\ [][C29_StepKeepsMatchers]_vars

\* the manager of r, which had the matcher of r from its construction, was
\* checked again at r and then at r/d, and holds these two matchers
C29_Witness ==
    /\ Len(w.gitignore_managers) = 1
    /\ trace.expanded = << <<R>>, P1(<<"d">>) >>
    /\ DOMAIN w.gitignore_managers[1].matchers = {<<R>>, P1(<<"d">>)}
    /\ w.gitignore_managers[1].active_gitignores
         = <<P1(GitignoreName), P2(<<"d">>, GitignoreName)>>

\* the paths given to process_file and the paths queued by the step
HandledByStep ==
    {w'.handled[k].path : k \in (Len(w.handled) + 1)..Len(w'.handled)}

QueuedByStep == {w'.queue[k] : k \in Len(w.queue)..Len(w'.queue)}

\* a step that expands a directory neither processes nor queues an entry of it
\* that the managers ignore with the ignore files they hold after the step,
\* the directory's own included
C30_StepFiltersWithOwnIgnoreFile ==
    trace'.expanded # trace.expanded /\ ~options.include_all =>
        \A entry \in ReadDir(fs, Head(w.queue)) :
            AnyIgnores(fs, w', entry) => entry \notin HandledByStep \cup QueuedByStep

\* C30: when a directory is expanded every manager's check for the directory's
\* own ignore file comes before any entry is filtered, so the rules of its
\* .gitignore apply to its own direct entries in the same visit
C30_OwnIgnoreFileAppliesAtOnce == [][C30_StepFiltersWithOwnIgnoreFile]_vars

\* r/d was expanded in the walk from r: the manager got the matcher of r/d in
\* that visit and r/d/x.t, ignored by r/d/.gitignore alone, was not processed
C30_Witness ==
    /\ paths = << <<R>> >>
    /\ ~options.include_all
    /\ ~w.truncated
    /\ trace.expanded = << <<R>>, P1(<<"d">>) >>
    /\ P1(<<"d">>) \in DOMAIN w.gitignore_managers[1].matchers
    /\ manager_should_ignore(fs, w.gitignore_managers[1], P2(<<"d">>, <<"x", ".", "t">>))
    /\ ~matcher_should_ignore(fs, w.gitignore_managers[1].matchers[<<R>>],
                              P2(<<"d">>, <<"x", ".", "t">>))
    /\ \A k \in 1..Len(w.handled) : w.handled[k].path # P2(<<"d">>, <<"x", ".", "t">>)
    /\ w.stats.gitignored_files = 3

----------------------------------------------------------------------------
(* Properties of the work queue *)

\* a step in which a call of pop by worker i returns, or passes through its loop
PopStepIn(i) == workers[i].at \in {"pop", "wait"}

\* a step in which worker i calls extend
ExtendStepOf(i) == workers[i].at = "extend" /\ workers'[i].at = "complete"

\* what a step taken in shutdown does
C20_StepInShutdown ==
    wq.shutdown =>
        /\ wq'.shutdown
        /\ \A i \in Workers :
              /\ PopStepIn(i) =>
                    /\ workers'[i].at \in {workers[i].at, "done"}
                    /\ workers'[i].at = "done" => wq'.queue = wq.queue
              /\ workers[i].at = "pop" => workers'[i].at # "wait"
              /\ workers'[i].at = "extend" => workers[i].at = "extend"
              /\ ExtendStepOf(i) =>
                    wq'.queue = wq.queue /\ wq'.active_tasks = wq.active_tasks

\* C20: shutdown is terminal: once true it never becomes false again, every
\* later pop returns None at once even if the queue still holds paths, and every
\* later extend leaves the queue and active_tasks unchanged
C20_ShutdownIsTerminal == [][C20_StepInShutdown]_vars

\* in shutdown with a path still queued, one worker got None from pop and another
\* called extend with children that were not accepted
C20_Witness ==
    /\ wq.shutdown
    /\ wq.queue # <<>>
    /\ \E i, j \in Workers :
          /\ workers[i].at = "done"
          /\ workers[j].at = "complete"
          /\ WorkChildren(workers[j].path) # <<>>
          /\ \A k \in 1..Len(pool.pushed) :
                pool.pushed[k] \notin Range(WorkChildren(workers[j].path))

\* C21: without a forced shutdown, the queue enters shutdown only when every
\* path ever pushed has been popped and its task completed, and every pushed
\* path is returned by pop exactly once
C21_NoPrematureShutdownNoLostWork ==
    ~pool.forced =>
        /\ NoDuplicates(pool.popped)
        /\ Range(pool.popped) \subseteq Range(pool.pushed)
        /\ wq.shutdown =>
              /\ Range(pool.pushed) = Range(pool.popped)
              /\ Range(pool.completed) = Range(pool.popped)
              /\ \A i \in Workers : workers[i].at \notin {"extend", "complete"}

\* what a step does to a worker that is in pop
C22_StepOfPop ==
    \A i \in Workers :
        PopStepIn(i) =>
            /\ wq.queue = <<>> /\ wq.active_tasks > 0 /\ ~wq.shutdown =>
                  workers'[i].at \in {workers[i].at, "wait"}
            /\ workers'[i].at = "extend" =>
                  /\ wq.queue # <<>>
                  /\ workers'[i].path = Head(wq.queue)
            /\ workers'[i].at = "done" => wq.shutdown \/ wq.active_tasks = 0

\* C22: a worker in pop with the queue empty, active_tasks > 0 and shutdown false
\* does not return None but waits; pop returns Some only when a path is
\* available and None only once shutdown is set or active_tasks is zero
C22_PopWaitsForWork == [][C22_StepOfPop]_vars

\* a worker waits in pop on an empty queue while another one holds a path
C22_Witness ==
    /\ wq.queue = <<>> /\ wq.active_tasks > 0 /\ ~wq.shutdown
    /\ \E i, j \in Workers :
          /\ workers[i].at = "wait"
          /\ workers[j].at \in {"extend", "complete"}

\* every worker has received None from pop and stopped
AllWorkersDone == \A i \in Workers : workers[i].at = "done"

\* C23: under fair scheduling every worker eventually receives None from pop and
\* stops, whether shutdown is reached naturally or forced; no worker stays
\* blocked on the condition variable forever
C23_EveryWorkerStops == <>AllWorkersDone

\* all workers have stopped after a natural shutdown of a pool that expanded the
\* whole tree under one root
C23_Witness ==
    /\ AllWorkersDone
    /\ ~pool.forced
    /\ wq.shutdown
    /\ Len(pool.completed) = 4

----------------------------------------------------------------------------
(* Properties of the bookkeeping of the walk *)

\* the path dequeued by the step cannot be canonicalized, or its canonical form
\* has been visited
SkippedAtDequeue ==
    \/ Canonicalize(fs, Head(w.queue)) = NoPath
    \/ Canonicalize(fs, Head(w.queue)) \in w.visited_paths

\* a step that dequeues such a path takes it off the frontier and changes
\* nothing else
C31_SkipStep ==
    pc = "walking" /\ w.queue # <<>> /\ ~w.truncated /\ SkippedAtDequeue =>
        /\ w'.contents = w.contents
        /\ w'.total_size = w.total_size
        /\ w'.truncated = w.truncated
        /\ w'.stats = w.stats
        /\ w'.gitignore_managers = w.gitignore_managers
        /\ w'.visited_paths = w.visited_paths
        /\ w'.handled = w.handled
        /\ w'.queue = Tail(w.queue)
        /\ ~w'.err
        /\ pc' = "walking"

\* C31: dequeuing a path whose canonicalization fails or whose canonical form is
\* already visited has no side effect: contents, total_size, truncated, the
\* statistics, the ignore managers and the frontier are unchanged and no error
\* is reported
C31_SkipHasNoSideEffect == [][C31_SkipStep]_vars

\* the dangling link r/m was dequeued as a root and r after it, and later the
\* directory r/d a second time, through the link r/c or as listed
C31_Witness ==
    /\ pc = "walking"
    /\ Len(trace.dequeued) >= 4
    /\ trace.dequeued[1] = P1(<<"m">>)
    /\ trace.processed[1] = <<R>>
    /\ \E i, j \in 1..Len(trace.dequeued) :
          /\ i < j
          /\ Canonicalize(fs, trace.dequeued[i]) = Canonicalize(fs, trace.dequeued[j])
          /\ Canonicalize(fs, trace.dequeued[i]) = P1(<<"d">>)

\* C32: every file that passed the size check and was classified has incremented
\* exactly one classification counter, the one of its classification, also the
\* file whose block triggered the truncation
C32_ClassifiedFilesCounted ==
    /\ w.stats.text_files = Len(HandledAs(w, "Text"))
    /\ w.stats.binary_files = Len(HandledAs(w, "Binary"))
    /\ w.stats.unreadable_files = Len(HandledAs(w, "Unreadable"))

\* the same for the binary and the unreadable files alone
C32_BinaryAndUnreadableCounted ==
    /\ w.stats.binary_files = Len(HandledAs(w, "Binary"))
    /\ w.stats.unreadable_files = Len(HandledAs(w, "Unreadable"))
    /\ w.stats.text_files
         = Len(HandledAs(w, "Text")) - (IF TruncatedBy(w, "Text") THEN 1 ELSE 0)

\* the entries the walk came across: those listed in the directories it
\* expanded and the paths that passed the visited check
EntriesMet ==
    UNION {IF CanReadDir(fs, trace.expanded[i]) THEN ReadDir(fs, trace.expanded[i]) ELSE {} :
              i \in 1..Len(trace.expanded)}
    \cup Range(trace.processed)

\* how many of these entries are of the kind ("file" or "dir") and excluded by
\* the ignore rules (by = "ignore") or, not being ignored, by their dot-name
ExcludedEntries(kind, by) ==
    Cardinality({e \in EntriesMet :
        /\ IF kind = "file" THEN IsFile(fs, e) ELSE IsDir(fs, e)
        /\ IF by = "ignore" THEN AnyIgnores(fs, w, e)
           ELSE ~AnyIgnores(fs, w, e) /\ IsDotName(e)})

\* C33: without include_all each excluded entry is recorded in exactly one
\* exclusion counter, exactly once per walk: as gitignored when a manager
\* ignores it, dot-named or not, and as skipped when it is dot-named and not
\* ignored
C33_ExcludedCountedOnce ==
    ~options.include_all =>
        /\ w.stats.gitignored_files = ExcludedEntries("file", "ignore")
        /\ w.stats.gitignored_directories = ExcludedEntries("dir", "ignore")
        /\ w.stats.skipped_files = ExcludedEntries("file", "dot")
        /\ w.stats.skipped_directories = ExcludedEntries("dir", "dot")

\* the same for the walks in which no root is also listed in a directory expanded
C33_ExcludedCountedOnceUnlessRootListed ==
    (\A k \in 1..Len(paths) : \A i \in 1..Len(trace.expanded) :
        paths[k] \notin ReadDir(fs, trace.expanded[i]))
        => C33_ExcludedCountedOnce

\* with include_all the four exclusion counters are zero
C34_NoExclusionCounted ==
    options.include_all =>
        /\ w.stats.gitignored_files = 0
        /\ w.stats.gitignored_directories = 0
        /\ w.stats.skipped_files = 0
        /\ w.stats.skipped_directories = 0

\* with include_all a step that expands a directory queues every subdirectory
\* listed and hands every file listed to process_file, up to the one that
\* truncates, whatever the managers say about them
C34_StepKeepsEveryEntry ==
    options.include_all /\ trace'.expanded # trace.expanded /\ ~w'.err =>
        LET entries == ReadDir(fs, Head(w.queue)) IN
        /\ QueuedByStep = {e \in entries : IsDir(fs, e)}
        /\ HandledByStep \subseteq {e \in entries : IsFile(fs, e)}
        /\ ~w'.truncated => HandledByStep = {e \in entries : IsFile(fs, e)}

\* C34: with include_all neither ignore rules nor dot-names exclude anything: no
\* manager's answer affects the walk, and the gitignored and skipped counters
\* stay zero for the whole walk
C34_IncludeAllExcludesNothing == []C34_NoExclusionCounted /\ [][C34_StepKeepsEveryEntry]_vars

\* a walk with include_all ended without truncation having processed a dot-named
\* file and a file that a manager ignores
C34_Witness ==
    /\ pc = "done"
    /\ options.include_all
    /\ ~w.truncated
    /\ \E i, j \in 1..Len(w.handled) :
          /\ IsDotName(w.handled[i].path)
          /\ AnyIgnores(fs, w, w.handled[j].path)
          /\ ~IsDotName(w.handled[j].path)

----------------------------------------------------------------------------
(* Properties of the accounting of the work queue *)

\* a call of extend by worker i that is accepted adds all the children to the
\* queue and their number to active_tasks in the one step
C35_ExtendStep ==
    \A i \in Workers :
        ExtendStepOf(i) /\ ~wq.shutdown =>
            /\ wq'.queue = wq.queue \o WorkChildren(workers[i].path)
            /\ wq'.active_tasks = wq.active_tasks + Len(WorkChildren(workers[i].path))

\* the queue looks exhausted while a worker that has not completed its task is
\* about to add children
LooksExhaustedBeforeExtend ==
    /\ wq.queue = <<>>
    /\ wq.active_tasks = 0
    /\ \E i \in Workers :
          workers[i].at = "extend" /\ WorkChildren(workers[i].path) # <<>>

\* C35: extend adds all the paths and increases active_tasks by their number in
\* one critical section, and no worker can observe the queue empty with
\* active_tasks zero while a producer that has not completed its task is about
\* to add children
C35_ExtendAtomicNoFalseExhaustion ==
    [](~LooksExhaustedBeforeExtend) /\ [][C35_ExtendStep]_vars

\* the step half of the claim alone
C35_ExtendAtomic == [][C35_ExtendStep]_vars

\* the state half for the runs seeded with at most one root
C35_NoFalseExhaustionOneRoot ==
    Len(pool.pushed) + Len(pool.to_push) > 0
        /\ (pool.to_push \o pool.pushed)[1] = <<R>> => ~LooksExhaustedBeforeExtend

\* the tasks popped and not yet completed
TasksInFlight == Cardinality({i \in Workers : workers[i].at \in {"extend", "complete"}})

\* C36: in every reachable state of the work queue, after any number of
\* push_initial calls and with no call of shutdown(), active_tasks equals the
\* number of queued paths plus the number of tasks popped and not yet completed
C36_ActiveTasksExact ==
    ~pool.forced => wq.active_tasks = Len(wq.queue) + TasksInFlight

\* the same for the runs seeded with at most one root, shutdown() included
C36_ActiveTasksExactOneRoot ==
    Len(pool.pushed) + Len(pool.to_push) > 0
        /\ (pool.to_push \o pool.pushed)[1] = <<R>> =>
        wq.active_tasks = Len(wq.queue) + TasksInFlight

----------------------------------------------------------------------------
(* Properties of the statistics of the walk *)

\* the files classified whose classification was recorded: all but the files
\* above the per-file cap and the text file that set truncated
ClassifiedAndRecorded(wk) ==
    Len(wk.handled) - Len(HandledAs(wk, "Large"))
        - (IF TruncatedBy(wk, "Text") THEN 1 ELSE 0)

\* C37: in every reachable state of a walk files_processed equals text_files +
\* binary_files + unreadable_files, and gitignored, skipped and large-file-skip
\* events leave it unchanged: it counts the recorded classifications only
C37_FilesProcessedIsSumOfClasses ==
    /\ w.stats.files_processed
         = w.stats.text_files + w.stats.binary_files + w.stats.unreadable_files
    /\ w.stats.files_processed = ClassifiedAndRecorded(w)

\* a walk recorded a binary and an unreadable file and skipped a large file
C37_Witness ==
    /\ w.stats.binary_files >= 1
    /\ w.stats.unreadable_files >= 1
    /\ w.stats.skipped_large_files >= 1
    /\ w.stats.files_processed = 2

\* a walk recorded a text file and met a dot-named and an ignored file
C37_WitnessExcluded ==
    /\ w.stats.text_files >= 1
    /\ w.stats.skipped_files >= 1
    /\ w.stats.gitignored_files >= 1
    /\ w.stats.files_processed = w.stats.text_files

\* the lengths of the text blocks in contents
TextBlockLens(wk) ==
    LET blocks == BlocksOfKind(wk.contents, "text") IN
    [i \in 1..Len(blocks) |-> blocks[i].len]

\* C38: in every reachable state of a walk text_files is the number of text blocks
\* in contents and total_bytes the sum of their formatted lengths, so
\* total_bytes <= total_size <= max_size, with total_bytes = total_size when
\* include_all is false
C38_TextBytesAccounted ==
    /\ w.stats.text_files = Len(TextBlockLens(w))
    /\ w.stats.total_bytes = SumSeq(TextBlockLens(w))
    /\ w.stats.total_bytes <= w.total_size
    /\ w.total_size <= options.max_size
    /\ ~options.include_all => w.stats.total_bytes = w.total_size

\* with include_all two text blocks and a binary block were emitted, so that
\* total_size exceeds total_bytes
C38_Witness ==
    /\ options.include_all
    /\ w.stats.text_files >= 2
    /\ Len(BlocksOfKind(w.contents, "binary")) >= 1
    /\ w.stats.total_bytes < w.total_size

\* the block of the file of the last call of process_file
LastCandidate(wk) ==
    LET last == wk.handled[Len(wk.handled)] IN
    IF last.class = "Text" THEN TextBlock(fs, last.path) ELSE BinaryBlock(last.path)

\* C39: both caps are inclusive: only a file of size > max_file_size is skipped,
\* one of size = max_file_size is classified; and only a block with
\* total_size + size > max_size truncates, one that brings total_size to
\* max_size exactly is appended
C39_CapsInclusive ==
    /\ \A k \in 1..Len(w.handled) :
          (w.handled[k].class = "Large")
              <=> (NodeAt(fs, w.handled[k].path).size > options.max_file_size)
    /\ w.truncated => w.total_size + LastCandidate(w).len > options.max_size
    /\ ~w.truncated => Len(BlocksOfKind(w.contents, "text")) = Len(HandledAs(w, "Text"))

\* a file of exactly max_file_size bytes was classified and its block appended
C39_WitnessFileCap ==
    /\ ~w.truncated
    /\ \E k \in 1..Len(w.handled) :
          /\ NodeAt(fs, w.handled[k].path).size = options.max_file_size
          /\ w.handled[k].class = "Text"
          /\ \E i \in FilePositions(w.contents) : w.contents[i].path = w.handled[k].path

\* a block was appended that brought total_size to max_size exactly
C39_Witness ==
    /\ ~w.truncated
    /\ w.contents # <<>>
    /\ w.total_size = options.max_size

----------------------------------------------------------------------------
(* Properties of the two copies of the wildcard matcher *)

\* C40: GitignoreMatcher::glob_match returns the same result as
\* GlobMatcher::matches for every text and every pattern: what matches
\* returned for the arguments of the call is what glob_match gives for them
C40_GlobMatchersAgree ==
    pc = "matched" => result.matched = glob_match(trace.text, trace.pattern)

\* matches has returned true where the '*' of the pattern had to take one
\* character of the text back: "ba" against "*a", which glob_match matches too
C40_Witness ==
    /\ pc = "matched"
    /\ trace.text = <<"b", "a">>
    /\ trace.pattern = <<"*", "a">>
    /\ result.matched
    /\ glob_match(trace.text, trace.pattern)

\* matches has returned false for a text that ends inside a character of two
\* bytes as the pattern sees it: '?' takes one byte, and so does glob_match
C40_WitnessBytes ==
    /\ pc = "matched"
    /\ trace.text = <<TwoByteChar>>
    /\ trace.pattern = <<"?">>
    /\ ~result.matched
    /\ ~glob_match(trace.text, trace.pattern)

====
